---- MODULE Spec2Model ----
(***************************************************************************)
(* Verification model of xBase3: the XDX B-tree index engine (xdx.c) and   *)
(* the DBF record-file engine (dbf.c).                                     *)
(*                                                                         *)
(* File offsets of index nodes are abstracted to the node's position in    *)
(* the sequence of nodes appended to the file (0 is the null offset).      *)
(* Positions inside a node are 0-based as in the C code; the entries of a  *)
(* node are a 1-based sequence, so entries[pos] of the code is             *)
(* entries[pos + 1] here.  Keys are modelled by their comparator class.    *)
(***************************************************************************)
EXTENDS Integers, Sequences, FiniteSets, TLC

\* Bounds of the model.
Order == 4
MaxKey == 4
MaxRecno == 4
MaxBuild == 5
MaxDeletes == 1
MaxRecs == 3
RecnoBits == 4
MaxFields == 2
MaxFieldLen == 2
MaxNext == 2
MaxRows == 2
MaxCommands == 1
MaxRepeat == 3
MaxInserts == 6
MaxCalls == 4
MaxLines == 3
MaxOrders == 3

Keys == 1..MaxKey
Recnos == 1..MaxRecno

VARIABLES
    xdx,        \* the XDX handle together with the nodes of its file
    xcrashed,   \* the process was aborted inside an index operation
    xlive,      \* (key, recno) pairs inserted and not deleted
    xcalls,     \* number of insert calls and of successful deletes so far
    xlast,      \* the last index operation, its arguments and its result
    xtrail,     \* record numbers visited since the last GoTop
    dbf,        \* the DBF handle (NULL when closed)
    dfile,      \* the DBF file: record count of the header and record slots
    dlast,      \* the last DBF operation, its arguments and its result
    clast,      \* the last command: its words, its parse and what it did
    parser,     \* the parser: tokens left, error flag and the last node
    ctx,        \* the session: its flags, its open indexes, the last command
    server,     \* the HTTP server: the main thread, the workers, the lock
    handles,    \* the caller's handles: released or not, and the last use of
                \* a released one
    store,      \* the memory variables and the scope level
    put         \* the last put on a field: its arguments, the error code
                \* and what the field holds

vars == <<xdx, xcrashed, xlive, xcalls, xlast, xtrail, dbf, dfile, dlast, clast,
         parser, ctx, server, handles, store, put>>
xvars == <<xdx, xcrashed, xlive, xcalls, xlast, xtrail>>
dvars == <<dbf, dfile, dlast, clast, parser, ctx, server, handles, store, put>>

(***************************************************************************)
(* XDX B-tree index engine                                                 *)
(***************************************************************************)

Entry(k, r, c) == [key |-> k, recno |-> r, child_offset |-> c]

EmptyNode(is_leaf) == [is_leaf |-> is_leaf, entries |-> <<>>, right_child |-> 0]

key_count(node) == Len(node.entries)

InsertAt(s, pos, e) == SubSeq(s, 1, pos) \o <<e>> \o SubSeq(s, pos + 1, Len(s))

RemoveAt(s, pos) == SubSeq(s, 1, pos) \o SubSeq(s, pos + 2, Len(s))

Sign(n) == IF n < 0 THEN -1 ELSE IF n > 0 THEN 1 ELSE 0

xdx_key_compare(x, key1, key2) ==
    LET result == Sign(key1 - key2)
    IN  IF x.descending THEN -result ELSE result

RECURSIVE BinSearch(_, _, _, _, _)
BinSearch(x, es, key, left, right) ==
    IF left > right
    THEN left
    ELSE LET mid == (left + right) \div 2
             cmp == xdx_key_compare(x, key, es[mid + 1].key)
         IN  IF cmp = 0 THEN mid
             ELSE IF cmp < 0 THEN BinSearch(x, es, key, left, mid - 1)
             ELSE BinSearch(x, es, key, mid + 1, right)

\* find_key_pos whose search lacks the "cmp == 0" case.
RECURSIVE BinSearchNoEqual(_, _, _, _, _)
BinSearchNoEqual(x, es, key, left, right) ==
    IF left > right
    THEN left
    ELSE LET mid == (left + right) \div 2
             cmp == xdx_key_compare(x, key, es[mid + 1].key)
         IN  IF cmp < 0 THEN BinSearchNoEqual(x, es, key, left, mid - 1)
             ELSE BinSearchNoEqual(x, es, key, mid + 1, right)

find_key_pos_no_equal(x, node, key) ==
    BinSearchNoEqual(x, node.entries, key, 0, key_count(node) - 1)

find_key_pos(x, node, key) ==
    BinSearch(x, node.entries, key, 0, key_count(node) - 1)

\* Appends an empty node to the file and returns the handle; the new
\* node's offset is Len(nodes) of the result.
node_create(x, is_leaf) ==
    [x EXCEPT !.nodes = Append(@, EmptyNode(is_leaf)),
              !.node_count = @ + 1]

ChildAt(node, pos) ==
    IF pos < key_count(node)
    THEN node.entries[pos + 1].child_offset
    ELSE node.right_child

\* split_node: n is the offset of the full node, p the offset of its parent
\* (0 for NULL) and pidx the position the descent took in the parent.
\* overflow reports that the parent already held order entries, so that the
\* shift wrote entries[order], one element past the allocated array.
split_node(x, n, p, pidx) ==
    LET node == x.nodes[n]
        kc == key_count(node)
        mid == kc \div 2
        x1 == node_create(x, node.is_leaf)
        new_offset == Len(x1.nodes)
        sibling == [is_leaf |-> node.is_leaf,
                    entries |-> SubSeq(node.entries, mid + 2, kc),
                    right_child |-> IF node.is_leaf THEN 0 ELSE node.right_child]
        mid_entry == node.entries[mid + 1]
        shrunk == [node EXCEPT !.entries = SubSeq(node.entries, 1, mid),
                               !.right_child = IF node.is_leaf THEN @
                                               ELSE mid_entry.child_offset]
        x2 == [x1 EXCEPT !.nodes[n] = shrunk, !.nodes[new_offset] = sibling]
    IN  IF p = 0
        THEN LET x3 == node_create(x2, FALSE)
                 new_root_offset == Len(x3.nodes)
                 new_root == [is_leaf |-> FALSE,
                              entries |-> <<Entry(mid_entry.key, mid_entry.recno, n)>>,
                              right_child |-> new_offset]
             IN  [x |-> [x3 EXCEPT !.nodes[new_root_offset] = new_root,
                                   !.root_offset = new_root_offset,
                                   !.modified = TRUE],
                  overflow |-> FALSE]
        ELSE LET parent == x2.nodes[p]
                 pkc == key_count(parent)
                 shifted == InsertAt(parent.entries, pidx,
                                     Entry(mid_entry.key, mid_entry.recno, n))
                 newparent ==
                     IF pidx = pkc
                     THEN [parent EXCEPT !.entries = shifted,
                                         !.right_child = new_offset]
                     ELSE [parent EXCEPT !.entries =
                              [shifted EXCEPT ![pidx + 2].child_offset = new_offset]]
             IN  [x |-> [x2 EXCEPT !.nodes[p] = newparent],
                  overflow |-> pkc >= x.order]

\* The descent loop without the duplicate check at internal nodes.
RECURSIVE InsertDescendLeafCheckOnly(_, _, _, _, _)
InsertDescendLeafCheckOnly(x, n, p, pidx, key) ==
    LET node == x.nodes[n]
        pos == find_key_pos(x, node, key)
    IN  IF node.is_leaf
        THEN [stop |-> "leaf", node |-> n, parent |-> p, parent_idx |-> pidx]
        ELSE IF ChildAt(node, pos) = 0
        THEN [stop |-> "read", node |-> n, parent |-> p, parent_idx |-> pidx]
        ELSE InsertDescendLeafCheckOnly(x, ChildAt(node, pos), n, pos, key)

\* The descent loop of xdx_insert: returns the leaf reached, its parent and
\* the position taken in the parent, or the reason the loop returned early.
RECURSIVE InsertDescend(_, _, _, _, _)
InsertDescend(x, n, p, pidx, key) ==
    LET node == x.nodes[n]
        pos == find_key_pos(x, node, key)
    IN  IF node.is_leaf
        THEN [stop |-> "leaf", node |-> n, parent |-> p, parent_idx |-> pidx]
        ELSE IF /\ x.unique
                /\ pos < key_count(node)
                /\ xdx_key_compare(x, key, node.entries[pos + 1].key) = 0
        THEN [stop |-> "DuplicateKey", node |-> n, parent |-> p, parent_idx |-> pidx]
        ELSE IF ChildAt(node, pos) = 0
        THEN [stop |-> "read", node |-> n, parent |-> p, parent_idx |-> pidx]
        ELSE InsertDescend(x, ChildAt(node, pos), n, pos, key)

InsertResult(x, ok, err, fault, xf) ==
    [x |-> x, ok |-> ok, err |-> err, fault |-> fault, xfault |-> xf]

\* xdx_insert.  fault names the memory error the call commits, if any, and
\* xfault the handle at that point:
\*   "double_free": the root was split; split_node released the cached root
\*                  and xdx_insert releases the same node again;
\*   "overflow":    split_node wrote past the parent's entry array.
RECURSIVE xdx_insert(_, _, _)
xdx_insert(x, key, recno) ==
    LET d == InsertDescend(x, x.root_offset, 0, 0, key)
        node == x.nodes[d.node]
        pos == find_key_pos(x, node, key)
    IN  IF d.stop = "DuplicateKey"
        THEN InsertResult(x, FALSE, "DuplicateKey", "none", x)
        ELSE IF d.stop = "read"
        THEN InsertResult(x, FALSE, "none", "none", x)
        ELSE IF /\ x.unique
                /\ \E i \in 1..key_count(node) :
                      xdx_key_compare(x, key, node.entries[i].key) = 0
        THEN InsertResult(x, FALSE, "DuplicateKey", "none", x)
        ELSE IF key_count(node) >= x.order - 1
        THEN LET s == split_node(x, d.node, d.parent, d.parent_idx)
             IN  IF s.overflow
                 THEN InsertResult(s.x, FALSE, "none", "overflow", s.x)
                 ELSE LET r == xdx_insert(s.x, key, recno)
                      IN  IF d.parent = 0 /\ r.fault = "none"
                          THEN InsertResult(r.x, r.ok, r.err, "double_free", s.x)
                          ELSE r
        ELSE InsertResult(
                 [x EXCEPT !.nodes[d.node].entries =
                               InsertAt(@, pos, Entry(key, recno, 0))],
                 TRUE, "none", "none", x)

RECURSIVE DeleteDescend(_, _, _)
DeleteDescend(x, n, key) ==
    LET node == x.nodes[n]
        pos == find_key_pos(x, node, key)
    IN  IF node.is_leaf THEN n
        ELSE IF ChildAt(node, pos) = 0 THEN 0
        ELSE DeleteDescend(x, ChildAt(node, pos), key)

xdx_delete(x, key, recno) ==
    LET n == DeleteDescend(x, x.root_offset, key)
    IN  IF n = 0
        THEN [x |-> x, ok |-> FALSE]
        ELSE LET node == x.nodes[n]
                 hits == {i \in 1..key_count(node) :
                            /\ xdx_key_compare(x, key, node.entries[i].key) = 0
                            /\ node.entries[i].recno = recno}
             IN  IF hits = {}
                 THEN [x |-> x, ok |-> FALSE]
                 ELSE LET del_pos == (CHOOSE i \in hits : \A j \in hits : i <= j) - 1
                      IN  [x |-> [x EXCEPT !.nodes[n].entries = RemoveAt(@, del_pos)],
                           ok |-> TRUE]

\* The traversal loop of xdx_seek from node n: the found flag and the
\* current record number it leaves.
RECURSIVE SeekFrom(_, _, _)
SeekFrom(x, n, key) ==
    IF n = 0
    THEN [found |-> FALSE, current_recno |-> 0]
    ELSE LET node == x.nodes[n]
             pos == find_key_pos(x, node, key)
             cmp == xdx_key_compare(x, key, node.entries[pos + 1].key)
         IN  IF node.is_leaf
             THEN IF pos < key_count(node)
                  THEN IF cmp = 0
                       THEN [found |-> TRUE,
                             current_recno |-> node.entries[pos + 1].recno]
                       ELSE IF cmp < 0
                       THEN [found |-> FALSE,
                             current_recno |-> node.entries[pos + 1].recno]
                       ELSE [found |-> FALSE, current_recno |-> 0]
                  ELSE [found |-> FALSE, current_recno |-> 0]
             ELSE IF pos < key_count(node) /\ cmp = 0
             THEN [found |-> TRUE, current_recno |-> node.entries[pos + 1].recno]
             ELSE SeekFrom(x, ChildAt(node, pos), key)

xdx_seek(x, key) ==
    LET r == SeekFrom(x, x.root_offset, key)
    IN  [x EXCEPT !.found = r.found, !.current_recno = r.current_recno]

RECURSIVE LeftmostLeaf(_, _)
LeftmostLeaf(x, n) ==
    IF n = 0 THEN 0
    ELSE IF x.nodes[n].is_leaf THEN n
    ELSE LeftmostLeaf(x, x.nodes[n].entries[1].child_offset)

RECURSIVE RightmostLeaf(_, _)
RightmostLeaf(x, n) ==
    IF n = 0 THEN 0
    ELSE IF x.nodes[n].is_leaf THEN n
    ELSE RightmostLeaf(x, x.nodes[n].right_child)

xdx_go_top(x) ==
    LET n == LeftmostLeaf(x, x.root_offset)
    IN  IF n # 0 /\ key_count(x.nodes[n]) > 0
        THEN [x |-> [x EXCEPT !.current_recno = x.nodes[n].entries[1].recno,
                              !.found = TRUE],
              ok |-> TRUE]
        ELSE [x |-> [x EXCEPT !.current_recno = 0, !.found = FALSE],
              ok |-> FALSE]

xdx_go_bottom(x) ==
    LET n == RightmostLeaf(x, x.root_offset)
    IN  IF n # 0 /\ key_count(x.nodes[n]) > 0
        THEN [x |-> [x EXCEPT !.current_recno =
                                  x.nodes[n].entries[key_count(x.nodes[n])].recno,
                              !.found = TRUE],
              ok |-> TRUE]
        ELSE [x |-> [x EXCEPT !.current_recno = 0, !.found = FALSE],
              ok |-> FALSE]

xdx_skip(x, count) == IF count = 0 THEN x.found ELSE FALSE

\* xdx_create: header with the given flags and one empty leaf as the root.
xdx_create(order, unique, descending) ==
    [nodes |-> <<EmptyNode(TRUE)>>, root_offset |-> 1, node_count |-> 1,
     order |-> order, unique |-> unique, descending |-> descending,
     found |-> FALSE, current_recno |-> 0, modified |-> FALSE]

XLast(op, key, recno, ok, err, pre) ==
    [op |-> op, key |-> key, recno |-> recno, ok |-> ok, err |-> err, pre |-> pre]

\* An insert that commits a memory error either aborts the process at that
\* point or, when the allocator tolerates the repeated release, returns.
InsertOutcomes(r) ==
    IF r.fault = "none" THEN {"return"}
    ELSE IF r.fault = "double_free" THEN {"abort", "return"}
    ELSE {"abort"}

\* Records are indexed in ascending record number, as the loop of
\* cmd_index does: the record number of a call is the number of the call.
Insert(key, recno) ==
    /\ ~xcrashed
    /\ recno = xcalls.inserts + 1
    /\ xcalls' = [xcalls EXCEPT !.inserts = recno]
    /\ LET r == xdx_insert(xdx, key, recno)
       IN  \E outcome \in InsertOutcomes(r) :
              IF outcome = "abort"
              THEN /\ xcrashed' = TRUE
                   /\ xdx' = r.xfault
                   /\ xlive' = xlive
                   /\ xlast' = XLast("insert", key, recno, FALSE, r.fault, 0)
              ELSE /\ xcrashed' = FALSE
                   /\ xdx' = r.x
                   /\ xlive' = IF r.ok THEN xlive \cup {<<key, recno>>} ELSE xlive
                   /\ xlast' = XLast("insert", key, recno, r.ok, r.err, 0)
    /\ xtrail' = <<>>
    /\ UNCHANGED dvars

\* The pair is recorded when the delete succeeds; pre records whether the
\* pair had been inserted and not yet deleted when the call was made.
Delete(key, recno) ==
    /\ ~xcrashed
    /\ xcalls.deletes < MaxDeletes
    /\ LET r == xdx_delete(xdx, key, recno)
           pre == IF <<key, recno>> \in xlive THEN 1 ELSE 0
       IN  /\ xdx' = r.x
           /\ xcalls' = [xcalls EXCEPT !.deletes = IF r.ok THEN @ + 1 ELSE @]
           /\ xlive' = IF r.ok THEN xlive \ {<<key, recno>>} ELSE xlive
           /\ xlast' = IF r.ok
                       THEN XLast("delete", key, recno, TRUE, "none", pre)
                       ELSE XLast("delete", 0, 0, FALSE, "none", pre)
    /\ xtrail' = <<>>
    /\ UNCHANGED <<xcrashed, dvars>>

\* pre records the record number of the insert this seek follows, when the
\* preceding operation was a successful insert of the same key.
Seek(key) ==
    /\ ~xcrashed
    /\ xdx' = xdx_seek(xdx, key)
    /\ xlast' = XLast("seek", key, 0, xdx'.found, "none",
                      IF xlast.op = "insert" /\ xlast.ok /\ xlast.key = key
                      THEN xlast.recno ELSE 0)
    /\ xtrail' = <<>>
    /\ UNCHANGED <<xcrashed, xlive, xcalls, dvars>>

GoTop ==
    /\ ~xcrashed
    /\ LET r == xdx_go_top(xdx)
       IN  /\ xdx' = r.x
           /\ xlast' = XLast("go_top", 0, 0, r.ok, "none", 0)
           /\ xtrail' = IF r.ok THEN <<r.x.current_recno>> ELSE <<>>
    /\ UNCHANGED <<xcrashed, xlive, xcalls, dvars>>

GoBottom ==
    /\ ~xcrashed
    /\ LET r == xdx_go_bottom(xdx)
       IN  /\ xdx' = r.x
           /\ xlast' = XLast("go_bottom", 0, 0, r.ok, "none", 0)
    /\ xtrail' = <<>>
    /\ UNCHANGED <<xcrashed, xlive, xcalls, dvars>>

\* pre records whether the skip continues a traversal started by GoTop.
Skip(count) ==
    /\ ~xcrashed
    /\ LET ok == xdx_skip(xdx, count)
       IN  /\ xlast' = XLast("skip", 0, 0, ok, "none",
                             IF xtrail # <<>> /\ count = 1 THEN 1 ELSE 0)
           /\ xtrail' = IF xtrail # <<>> /\ count = 1 /\ ok
                        THEN Append(xtrail, xdx.current_recno)
                        ELSE IF count >= 0 THEN xtrail ELSE <<>>
    /\ UNCHANGED <<xdx, xcrashed, xlive, xcalls, dvars>>

XNext ==
    \/ \E key \in Keys, recno \in Recnos : Insert(key, recno)
    \/ \E key \in Keys, recno \in Recnos : Delete(key, recno)
    \/ \E key \in Keys : Seek(key)
    \/ GoTop
    \/ GoBottom
    \/ \E count \in {-1, 0, 1} : Skip(count)

(***************************************************************************)
(* DBF record-file engine                                                  *)
(*                                                                         *)
(* A record is its delete-flag byte and the content of its data field      *)
(* (" " for an all-spaces field, "NUL" for the zero bytes of a fresh       *)
(* buffer).                                                                *)
(* File reads and writes succeed.  The uint32_t of record numbers and the  *)
(* int of skip counts are scaled to RecnoBits bits.                        *)
(***************************************************************************)

\* uint32_t values are 0..UIntMod - 1, int values are IntMin..IntMax.
UIntMod == 2 ^ RecnoBits

IntMax == 2 ^ (RecnoBits - 1) - 1

IntMin == -(2 ^ (RecnoBits - 1))

DBF_RECORD_ACTIVE == " "
DBF_RECORD_DELETED == "*"

Rec(flag, data) == [flag |-> flag, data |-> data]

Spaces == " "

BlankRec == Rec(DBF_RECORD_ACTIVE, Spaces)

ZeroRec == Rec("NUL", "NUL")

\* The sum of the lengths of a sequence of field lengths.
RECURSIVE SumLengths(_)
SumLengths(lengths) ==
    IF lengths = <<>> THEN 0 ELSE Head(lengths) + SumLengths(Tail(lengths))

\* The bytes of the file: the header, every record slot ever written and the
\* byte of the end-of-file marker after the last of them.  No operation
\* shortens the file.
FileLength(f) ==
    IF f.exists THEN f.header_size + Len(f.recs) * f.record_size + 1 ELSE 0

DbfClosed ==
    [open |-> FALSE, readonly |-> FALSE, fields |-> <<>>, header_size |-> 0,
     record_size |-> 0, record_count |-> 0,
     current_record |-> 0, record_buffer |-> ZeroRec, modified |-> FALSE,
     eof |-> FALSE, bof |-> FALSE, deleted |-> FALSE]

\* A call's effect: the handle, the file and the value returned.
DRes(d, f, ok) == [d |-> d, f |-> f, ok |-> ok]

read_record(d, f) ==
    IF d.current_record = 0 \/ d.current_record > d.record_count
    THEN DRes(d, f, FALSE)
    ELSE DRes([d EXCEPT !.record_buffer = f.recs[d.current_record],
                        !.deleted = (f.recs[d.current_record].flag = DBF_RECORD_DELETED),
                        !.modified = FALSE],
              f, TRUE)

write_record(d, f) ==
    IF d.readonly
    THEN DRes(d, f, FALSE)
    ELSE IF d.current_record = 0 \/ d.current_record > d.record_count
    THEN DRes(d, f, FALSE)
    ELSE DRes([d EXCEPT !.modified = FALSE],
              [f EXCEPT !.recs[d.current_record] = d.record_buffer],
              TRUE)

\* The "if (dbf->modified) write_record(dbf)" that opens several operations.
FlushPending(d, f) ==
    IF d.modified THEN write_record(d, f) ELSE DRes(d, f, TRUE)

\* dbf_goto without the flush of pending changes.
dbf_goto_no_flush(d, f, recno) ==
    IF recno = 0
    THEN DRes([d EXCEPT !.current_record = 0, !.bof = TRUE, !.eof = FALSE,
                        !.record_buffer = BlankRec],
              f, TRUE)
    ELSE IF recno > d.record_count
    THEN DRes([d EXCEPT !.current_record = d.record_count + 1,
                        !.bof = FALSE, !.eof = TRUE,
                        !.record_buffer = BlankRec],
              f, TRUE)
    ELSE read_record([d EXCEPT !.current_record = recno,
                               !.bof = FALSE, !.eof = FALSE], f)

dbf_goto(d0, f0, recno) ==
    LET w == FlushPending(d0, f0)
        d == w.d
        f == w.f
    IN  IF recno = 0
        THEN DRes([d EXCEPT !.current_record = 0, !.bof = TRUE, !.eof = FALSE,
                            !.record_buffer = BlankRec],
                  f, TRUE)
        ELSE IF recno > d.record_count
        THEN DRes([d EXCEPT !.current_record = (d.record_count + 1) % UIntMod,
                            !.bof = FALSE, !.eof = TRUE,
                            !.record_buffer = BlankRec],
                  f, TRUE)
        ELSE read_record([d EXCEPT !.current_record = recno,
                                   !.bof = FALSE, !.eof = FALSE], f)

dbf_skip(d, f, count) ==
    IF count = 0
    THEN DRes(d, f, TRUE)
    ELSE LET new_recno ==
                 IF count > 0
                 THEN (d.current_record + count) % UIntMod
                 ELSE IF -count >= d.current_record
                 THEN 0
                 ELSE d.current_record - (-count)
         IN  dbf_goto(d, f, new_recno)

dbf_go_top(d, f) ==
    IF d.record_count = 0
    THEN DRes([d EXCEPT !.bof = TRUE, !.eof = TRUE, !.current_record = 0], f, TRUE)
    ELSE dbf_goto(d, f, 1)

dbf_go_bottom(d, f) ==
    IF d.record_count = 0
    THEN DRes([d EXCEPT !.bof = TRUE, !.eof = TRUE, !.current_record = 0], f, TRUE)
    ELSE dbf_goto(d, f, d.record_count)

\* read_fields rejects a file whose field lengths do not add up to the
\* record size of its header; the handle is then not opened.
dbf_open(f, readonly) ==
    LET d == [DbfClosed EXCEPT !.open = TRUE, !.readonly = readonly,
                               !.fields = f.fields,
                               !.header_size = f.header_size,
                               !.record_size = f.record_size,
                               !.record_count = f.record_count,
                               !.current_record = 0, !.bof = TRUE,
                               !.eof = (f.record_count = 0)]
    IN  IF SumLengths(f.fields) + 1 # f.record_size
        THEN DbfClosed
        ELSE IF f.record_count > 0 THEN dbf_go_top(d, f).d ELSE d

\* dbf_create whose record size leaves out the byte of the deletion flag.
dbf_create_no_flag_byte(fields) ==
    LET header_size == 32 + Len(fields) * 32 + 1
        record_size == SumLengths(fields) % 65536
    IN  DRes([DbfClosed EXCEPT !.open = TRUE, !.bof = TRUE, !.eof = TRUE,
                               !.fields = fields,
                               !.header_size = header_size,
                               !.record_size = record_size],
             [exists |-> TRUE, fields |-> fields, header_size |-> header_size,
              record_size |-> record_size, record_count |-> 0, recs |-> <<>>],
             TRUE)

\* fields is the sequence of the lengths of the fields, each one valid for
\* its type.  The record size is a uint16_t.
dbf_create(fields) ==
    LET header_size == 32 + Len(fields) * 32 + 1
        record_size == (1 + SumLengths(fields)) % 65536
    IN  DRes([DbfClosed EXCEPT !.open = TRUE, !.bof = TRUE, !.eof = TRUE,
                               !.fields = fields,
                               !.header_size = header_size,
                               !.record_size = record_size],
             [exists |-> TRUE, fields |-> fields, header_size |-> header_size,
              record_size |-> record_size, record_count |-> 0, recs |-> <<>>],
             TRUE)

dbf_close(d, f) == DRes(DbfClosed, FlushPending(d, f).f, TRUE)

\* Stores rec in slot n of the file, which is either an existing slot or the
\* one just past the last.
PutSlot(recs, n, rec) ==
    IF n <= Len(recs) THEN [recs EXCEPT ![n] = rec] ELSE Append(recs, rec)

\* dbf_append_blank without the "dbf->eof = false" of its repositioning.
dbf_append_blank_keeps_eof(d0, f0) ==
    IF d0.readonly
    THEN DRes(d0, f0, FALSE)
    ELSE LET w == FlushPending(d0, f0)
             count == w.d.record_count + 1
         IN  DRes([w.d EXCEPT !.record_buffer = BlankRec,
                              !.record_count = count,
                              !.current_record = count,
                              !.bof = FALSE,
                              !.deleted = FALSE, !.modified = FALSE],
                  [w.f EXCEPT !.recs = PutSlot(@, w.d.record_count + 1, BlankRec),
                              !.record_count = count],
                  TRUE)

dbf_append_blank(d0, f0) ==
    IF d0.readonly
    THEN DRes(d0, f0, FALSE)
    ELSE LET w == FlushPending(d0, f0)
             count == w.d.record_count + 1
         IN  DRes([w.d EXCEPT !.record_buffer = BlankRec,
                              !.record_count = count,
                              !.current_record = count,
                              !.bof = FALSE, !.eof = FALSE,
                              !.deleted = FALSE, !.modified = FALSE],
                  [w.f EXCEPT !.recs = PutSlot(@, w.d.record_count + 1, BlankRec),
                              !.record_count = count],
                  TRUE)

dbf_delete(d, f) ==
    IF d.readonly \/ d.current_record = 0 \/ d.eof
    THEN DRes(d, f, FALSE)
    ELSE DRes([d EXCEPT !.record_buffer.flag = DBF_RECORD_DELETED,
                        !.deleted = TRUE, !.modified = TRUE],
              f, TRUE)

dbf_recall(d, f) ==
    IF d.readonly \/ d.current_record = 0 \/ d.eof
    THEN DRes(d, f, FALSE)
    ELSE DRes([d EXCEPT !.record_buffer.flag = DBF_RECORD_ACTIVE,
                        !.deleted = FALSE, !.modified = TRUE],
              f, TRUE)

dbf_flush(d, f) == FlushPending(d, f)

\* dbf_put_string on the data field: the field is cleared to spaces and the
\* value copied over it.
dbf_put_string(d, f, value) ==
    IF d.readonly \/ d.current_record = 0 \/ d.eof
    THEN DRes(d, f, FALSE)
    ELSE DRes([d EXCEPT !.record_buffer.data = IF value = "" THEN Spaces ELSE value,
                        !.modified = TRUE],
              f, TRUE)

\* The copy loop of dbf_pack over records read_recno..record_count, with
\* write_recno survivors written so far.
RECURSIVE PackLoop(_, _, _, _)
PackLoop(recs, record_count, read_recno, write_recno) ==
    IF read_recno > record_count
    THEN [recs |-> recs, write_recno |-> write_recno]
    ELSE IF recs[read_recno].flag = DBF_RECORD_DELETED
    THEN PackLoop(recs, record_count, read_recno + 1, write_recno)
    ELSE PackLoop([recs EXCEPT ![write_recno + 1] = recs[read_recno]],
                  record_count, read_recno + 1, write_recno + 1)

\* dbf_pack without the flush of pending changes.
dbf_pack_no_flush(d0, f0) ==
    IF d0.readonly
    THEN DRes(d0, f0, FALSE)
    ELSE LET p == PackLoop(f0.recs, d0.record_count, 1, 0)
             d == [d0 EXCEPT !.record_count = p.write_recno]
             f == [f0 EXCEPT !.recs = p.recs, !.record_count = p.write_recno]
             g == dbf_go_top(d, f)
         IN  DRes(g.d, g.f, TRUE)

dbf_pack(d0, f0) ==
    IF d0.readonly
    THEN DRes(d0, f0, FALSE)
    ELSE LET w == FlushPending(d0, f0)
             p == PackLoop(w.f.recs, w.d.record_count, 1, 0)
             d == [w.d EXCEPT !.record_count = p.write_recno]
             f == [w.f EXCEPT !.recs = p.recs, !.record_count = p.write_recno]
             g == dbf_go_top(d, f)
         IN  DRes(g.d, g.f, TRUE)

\* dbf_zap without the reset of the position.
dbf_zap_keeps_position(d, f) ==
    IF d.readonly
    THEN DRes(d, f, FALSE)
    ELSE DRes([d EXCEPT !.record_count = 0,
                        !.bof = TRUE, !.eof = TRUE, !.deleted = FALSE,
                        !.modified = FALSE, !.record_buffer = BlankRec],
              [f EXCEPT !.record_count = 0],
              TRUE)

dbf_zap(d, f) ==
    IF d.readonly
    THEN DRes(d, f, FALSE)
    ELSE DRes([d EXCEPT !.record_count = 0, !.current_record = 0,
                        !.bof = TRUE, !.eof = TRUE, !.deleted = FALSE,
                        !.modified = FALSE, !.record_buffer = BlankRec],
              [f EXCEPT !.record_count = 0],
              TRUE)

\* The calls of the C library that can fail inside an operation.  fault
\* names the first call that fails: "fseek" the positioning, "record" the
\* fwrite of a record, "read" the fread of the first record, "eof" the
\* fwrite of the end-of-file marker, "header" the write of write_header;
\* "none" when every call succeeds.  The calls before it have taken effect,
\* the function returns false at the failing one.
AppendFaults == {"none", "fseek", "record", "eof", "header"}

PackFaults == {"none", "read", "eof", "header"}

ZapFaults == {"none", "fseek", "eof", "header"}

dbf_append_blank_io(d0, f0, fault) ==
    IF d0.readonly
    THEN DRes(d0, f0, FALSE)
    ELSE LET w == FlushPending(d0, f0)
             blank == [w.d EXCEPT !.record_buffer = BlankRec]
             written == [w.f EXCEPT !.recs = PutSlot(@, w.d.record_count + 1, BlankRec)]
         IN  IF fault \in {"fseek", "record"} THEN DRes(blank, w.f, FALSE)
             ELSE IF fault = "eof" THEN DRes(blank, written, FALSE)
             ELSE IF fault = "header"
             THEN DRes([blank EXCEPT !.record_count = w.d.record_count + 1],
                       written, FALSE)
             ELSE dbf_append_blank(d0, f0)

dbf_pack_io(d0, f0, fault) ==
    IF d0.readonly
    THEN DRes(d0, f0, FALSE)
    ELSE LET w == FlushPending(d0, f0)
             p == PackLoop(w.f.recs, w.d.record_count, 1, 0)
         IN  IF fault = "read" /\ w.d.record_count > 0 THEN DRes(w.d, w.f, FALSE)
             ELSE IF fault \in {"eof", "header"}
             THEN DRes([w.d EXCEPT !.record_count = p.write_recno],
                       [w.f EXCEPT !.recs = p.recs], FALSE)
             ELSE dbf_pack(d0, f0)

dbf_zap_io(d, f, fault) ==
    IF d.readonly
    THEN DRes(d, f, FALSE)
    ELSE IF fault \in {"fseek", "eof", "header"}
    THEN DRes([d EXCEPT !.record_count = 0], f, FALSE)
    ELSE dbf_zap(d, f)

\* pre is, for a navigation or a close, the record whose change was pending
\* when the call was made (0 for none); for an append or a pack, the record
\* count before the call.  arg is the count of a skip.
DLast(op, ok, pre, arg) == [op |-> op, ok |-> ok, pre |-> pre, arg |-> arg]

PendingRecord == IF dbf.modified THEN dbf.current_record ELSE 0

\* The file before dbf_create: it does not exist.
NoFile ==
    [exists |-> FALSE, fields |-> <<>>, header_size |-> 0, record_size |-> 0,
     record_count |-> 0, recs |-> <<>>]

DStepArg(op, r, pre, arg) ==
    /\ dbf' = r.d
    /\ dfile' = r.f
    /\ dlast' = DLast(op, r.ok, pre, arg)
    /\ UNCHANGED <<xvars, clast, parser, ctx, server, handles, store, put>>

DStep(op, r, pre) ==
    /\ dbf' = r.d
    /\ dfile' = r.f
    /\ dlast' = DLast(op, r.ok, pre, 0)
    /\ UNCHANGED <<xvars, clast, parser, ctx, server, handles, store, put>>

Create(fields) == ~dbf.open /\ DStep("create", dbf_create(fields), 0)

Open(readonly) ==
    /\ ~dbf.open
    /\ dfile.exists
    /\ LET d == dbf_open(dfile, readonly)
       IN  DStep("open", DRes(d, dfile, d.open), 0)

Close == dbf.open /\ DStep("close", dbf_close(dbf, dfile), PendingRecord)

Goto(recno) == dbf.open /\ DStep("goto", dbf_goto(dbf, dfile, recno), PendingRecord)

DSkip(count) ==
    dbf.open /\ DStepArg("skip", dbf_skip(dbf, dfile, count), PendingRecord, count)

DGoTop == dbf.open /\ DStep("go_top", dbf_go_top(dbf, dfile), PendingRecord)

DGoBottom == dbf.open /\ DStep("go_bottom", dbf_go_bottom(dbf, dfile), PendingRecord)

AppendBlank ==
    /\ dbf.open
    /\ dbf.record_count < MaxRecs
    /\ DStep("append_blank", dbf_append_blank(dbf, dfile), dbf.record_count)

DDelete == dbf.open /\ DStep("delete", dbf_delete(dbf, dfile), 0)

Recall == dbf.open /\ DStep("recall", dbf_recall(dbf, dfile), 0)

PutString(value) == dbf.open /\ DStep("put_string", dbf_put_string(dbf, dfile, value), 0)

Flush == dbf.open /\ DStep("flush", dbf_flush(dbf, dfile), 0)

Pack == dbf.open /\ DStep("pack", dbf_pack(dbf, dfile), dbf.record_count)

Zap == dbf.open /\ DStep("zap", dbf_zap(dbf, dfile), 0)

\* The operations on a disk whose writes can fail; arg names the failing call.
AppendBlankIO(fault) ==
    /\ dbf.open
    /\ dbf.record_count < MaxRecs
    /\ DStepArg("append_blank", dbf_append_blank_io(dbf, dfile, fault),
                dbf.record_count, fault)

PackIO(fault) ==
    dbf.open /\ DStepArg("pack", dbf_pack_io(dbf, dfile, fault), dbf.record_count, fault)

ZapIO(fault) ==
    dbf.open /\ DStepArg("zap", dbf_zap_io(dbf, dfile, fault), dbf.record_count, fault)

\* A table of one field of one character.
OneField == <<1>>

DNext ==
    \/ Create(OneField)
    \/ \E readonly \in BOOLEAN : Open(readonly)
    \/ Close
    \/ \E recno \in 0..(MaxRecs + 1) : Goto(recno)
    \/ \E count \in {-1, 0, 1} : DSkip(count)
    \/ DGoTop
    \/ DGoBottom
    \/ AppendBlank
    \/ DDelete
    \/ Recall
    \/ \E value \in {"", "A"} : PutString(value)
    \/ Flush
    \/ Pack
    \/ Zap

(***************************************************************************)
(* The command dispatcher over the current table (commands.c) and the      *)
(* scope/FOR/WHILE suffix of the parser (parser.c).  The suffix of a       *)
(* command is a sequence of clauses; the expression of a clause is one     *)
(* word.  The conditions are the expressions over the data field of the    *)
(* current record.                                                         *)
(***************************************************************************)

\* The NULL of an absent expression and of an absent count.
NoExpr == "NULL"

NoCount == -1

\* DATA = 'A', a condition over the field of the current record.
DataIsA == "DATA='A'"

Clause(kw, count, expr) == [kw |-> kw, count |-> count, expr |-> expr]

Scope(type, count) == [type |-> type, count |-> count]

\* The node ast_node_new returns: scope ALL, no conditions.
ast_node_new(type) ==
    [type |-> type, scope |-> Scope("SCOPE_ALL", NoCount),
     condition |-> NoExpr, while_cond |-> NoExpr]

\* The parser's position is the clauses still to read.
parse_scope(toks) ==
    IF toks # <<>> /\ Head(toks).kw = "ALL"
    THEN [scope |-> Scope("SCOPE_ALL", NoCount), rest |-> Tail(toks)]
    ELSE IF toks # <<>> /\ Head(toks).kw = "NEXT"
    THEN [scope |-> Scope("SCOPE_NEXT", Head(toks).count), rest |-> Tail(toks)]
    ELSE IF toks # <<>> /\ Head(toks).kw = "RECORD"
    THEN [scope |-> Scope("SCOPE_RECORD", Head(toks).count), rest |-> Tail(toks)]
    ELSE IF toks # <<>> /\ Head(toks).kw = "REST"
    THEN [scope |-> Scope("SCOPE_REST", NoCount), rest |-> Tail(toks)]
    ELSE [scope |-> Scope("SCOPE_ALL", NoCount), rest |-> toks]

RECURSIVE parse_conditions(_, _)
parse_conditions(toks, node) ==
    IF toks # <<>> /\ Head(toks).kw = "FOR"
    THEN parse_conditions(Tail(toks), [node EXCEPT !.condition = Head(toks).expr])
    ELSE IF toks # <<>> /\ Head(toks).kw = "WHILE"
    THEN parse_conditions(Tail(toks), [node EXCEPT !.while_cond = Head(toks).expr])
    ELSE [node |-> node, rest |-> toks]

\* parse_list, parse_delete, parse_replace and parse_count from their suffix
\* on: one parse_scope, then parse_conditions.  What is left of the line is
\* skipped by parser_parse_command.
parse_suffix(type, toks) ==
    LET s == parse_scope(toks)
    IN  parse_conditions(s.rest, [ast_node_new(type) EXCEPT !.scope = s.scope]).node

\* expr_eval and value_to_logical of a condition on the current record.
value_to_logical(expr, d) == d.record_buffer.data = "A"

check_conditions(node, d, processed) ==
    /\ node.scope.type = "SCOPE_NEXT" /\ node.scope.count # NoCount
           => processed < node.scope.count
    /\ node.scope.type = "SCOPE_RECORD" => processed < 1
    /\ node.while_cond # NoExpr => value_to_logical(node.while_cond, d)

check_for_condition(node, d) ==
    node.condition = NoExpr \/ value_to_logical(node.condition, d)

\* What a command did: handle and file after it, the records on which it
\* tested FOR, the records its body acted on, the count it printed and, of
\* REINDEX only, the last line it printed.
NoReport == -1

CRes(d, f, visited, acted, report, iterated) ==
    [d |-> d, f |-> f, visited |-> visited, acted |-> acted,
     report |-> report, iterated |-> iterated, said |-> ""]

SingleRecord(node) ==
    node.scope.type = "SCOPE_ALL" /\ node.condition = NoExpr
        /\ node.while_cond = NoExpr

\* The record loop of cmd_list; processed is the number of rows printed.
RECURSIVE ListLoop(_, _, _, _, _, _, _)
ListLoop(node, is_display, d, f, processed, visited, acted) ==
    IF d.eof \/ ~check_conditions(node, d, processed)
    THEN CRes(d, f, visited, acted, NoReport, TRUE)
    ELSE IF check_for_condition(node, d)
    THEN IF is_display /\ SingleRecord(node)
         THEN CRes(d, f, Append(visited, d.current_record),
                   Append(acted, d.current_record), NoReport, TRUE)
         ELSE LET s == dbf_skip(d, f, 1)
              IN  ListLoop(node, is_display, s.d, s.f, processed + 1,
                           Append(visited, d.current_record),
                           Append(acted, d.current_record))
    ELSE LET s == dbf_skip(d, f, 1)
         IN  ListLoop(node, is_display, s.d, s.f, processed,
                      Append(visited, d.current_record), acted)

cmd_list(node, is_display, d0, f0) ==
    LET t == IF is_display THEN DRes(d0, f0, TRUE) ELSE dbf_go_top(d0, f0)
    IN  IF is_display /\ (t.d.eof \/ t.d.current_record = 0)
        THEN CRes(t.d, t.f, <<>>, <<>>, NoReport, FALSE)
        ELSE ListLoop(node, is_display, t.d, t.f, 0, <<>>, <<>>)

\* The record loop of cmd_delete (is_recall FALSE) and of cmd_recall.
RECURSIVE DeleteLoop(_, _, _, _, _, _, _)
DeleteLoop(node, is_recall, d, f, processed, visited, acted) ==
    IF d.eof \/ ~check_conditions(node, d, processed)
    THEN LET w == dbf_flush(d, f)
         IN  CRes(w.d, w.f, visited, acted, Len(acted), TRUE)
    ELSE LET hit == check_for_condition(node, d)
             r == IF ~hit THEN DRes(d, f, FALSE)
                  ELSE IF is_recall THEN dbf_recall(d, f)
                  ELSE dbf_delete(d, f)
             s == dbf_skip(r.d, r.f, 1)
         IN  DeleteLoop(node, is_recall, s.d, s.f, processed + 1,
                        Append(visited, d.current_record),
                        IF r.ok THEN Append(acted, d.current_record) ELSE acted)

DeleteOrRecall(node, is_recall, d, f) ==
    IF SingleRecord(node)
    THEN LET r == IF is_recall THEN dbf_recall(d, f) ELSE dbf_delete(d, f)
             w == dbf_flush(r.d, r.f)
         IN  IF r.ok
             THEN CRes(w.d, w.f, <<>>, <<d.current_record>>, 1, FALSE)
             ELSE CRes(r.d, r.f, <<>>, <<>>, NoReport, FALSE)
    ELSE LET t == IF node.scope.type = "SCOPE_ALL"
                  THEN dbf_go_top(d, f)
                  ELSE DRes(d, f, TRUE)
         IN  DeleteLoop(node, is_recall, t.d, t.f, 0, <<>>, <<>>)

cmd_delete(node, d, f) == DeleteOrRecall(node, FALSE, d, f)

cmd_recall(node, d, f) == DeleteOrRecall(node, TRUE, d, f)

\* The field of REPLACE is the data field; value is what WITH evaluates to.
ReplaceBody(d, f, value) ==
    LET r == dbf_put_string(d, f, value)
    IN  dbf_flush(r.d, r.f)

\* The do-while of cmd_replace when the command is not of a single record;
\* the cursor is on a record when it is entered.
RECURSIVE ReplaceLoop(_, _, _, _, _, _, _)
ReplaceLoop(node, value, d, f, processed, visited, acted) ==
    IF ~check_conditions(node, d, processed)
    THEN CRes(d, f, visited, acted, Len(acted), TRUE)
    ELSE LET hit == check_for_condition(node, d)
             b == IF hit THEN ReplaceBody(d, f, value) ELSE DRes(d, f, TRUE)
             s == dbf_skip(b.d, b.f, 1)
             v == Append(visited, d.current_record)
             a == IF hit THEN Append(acted, d.current_record) ELSE acted
         IN  IF s.d.eof
             THEN CRes(s.d, s.f, v, a, Len(a), TRUE)
             ELSE ReplaceLoop(node, value, s.d, s.f, processed + 1, v, a)

cmd_replace(node, value, d, f) ==
    IF d.eof \/ d.current_record = 0
    THEN CRes(d, f, <<>>, <<>>, NoReport, FALSE)
    ELSE IF SingleRecord(node)
    THEN LET b == ReplaceBody(d, f, value)
         IN  CRes(b.d, b.f, <<>>, <<d.current_record>>, 1, FALSE)
    ELSE LET t == IF node.scope.type = "SCOPE_ALL"
                  THEN dbf_go_top(d, f)
                  ELSE DRes(d, f, TRUE)
         IN  ReplaceLoop(node, value, t.d, t.f, 0, <<>>, <<>>)

\* The record loop of cmd_count; counted holds the records FOR passed.
RECURSIVE CountLoop(_, _, _, _, _, _)
CountLoop(node, d, f, processed, visited, acted) ==
    IF d.eof \/ ~check_conditions(node, d, processed)
    THEN CRes(d, f, visited, acted, Len(acted), TRUE)
    ELSE LET s == dbf_skip(d, f, 1)
         IN  CountLoop(node, s.d, s.f, processed + 1,
                       Append(visited, d.current_record),
                       IF check_for_condition(node, d)
                       THEN Append(acted, d.current_record)
                       ELSE acted)

cmd_count(node, d0, f0) ==
    LET t == dbf_go_top(d0, f0)
    IN  CountLoop(node, t.d, t.f, 0, <<>>, <<>>)

\* index_count is the number of indexes the session has open.  No index is
\* touched.
cmd_reindex(index_count, d, f) ==
    IF index_count = 0
    THEN [CRes(d, f, <<>>, <<>>, NoReport, FALSE) EXCEPT
             !.said = "No indexes to rebuild"]
    ELSE [CRes(d, f, <<>>, <<>>, index_count, FALSE) EXCEPT
             !.said = "Reindex complete"]

\* The position of a handle.
Position(d) ==
    [current_record |-> d.current_record, record_count |-> d.record_count,
     eof |-> d.eof, readonly |-> d.readonly]

\* The last command: its number in the session, verb and suffix as written, the node parsed from them,
\* position and file before it, and what it did.
CLast(seq, verb, toks, node, pre, prefile, r) ==
    [seq |-> seq, verb |-> verb, toks |-> toks, node |-> node,
     pre |-> Position(pre), prefile |-> prefile, visited |-> r.visited, acted |-> r.acted,
     report |-> r.report, iterated |-> r.iterated, said |-> r.said]

NoCommand ==
    CLast(0, "none", <<>>, ast_node_new("none"), DbfClosed, NoFile,
          CRes(DbfClosed, NoFile, <<>>, <<>>, NoReport, FALSE))

CRun(verb, toks, node, r) ==
    /\ dbf' = r.d
    /\ dfile' = r.f
    /\ clast' = CLast(clast.seq + 1, verb, toks, node, dbf, dfile, r)
    /\ UNCHANGED <<xvars, dlast, parser, ctx, server, handles, store, put>>

CStep(verb, toks, node, r) == clast.seq < MaxCommands /\ CRun(verb, toks, node, r)

\* DELETE with nothing after it, up to MaxRepeat times in a session.
DeleteCurrent ==
    /\ dbf.open
    /\ clast.seq < MaxRepeat
    /\ LET node == parse_suffix("CMD_DELETE", <<>>)
       IN  CRun("DELETE", <<>>, node, cmd_delete(node, dbf, dfile))

List(toks) ==
    /\ dbf.open
    /\ LET node == parse_suffix("CMD_LIST", toks)
       IN  CStep("LIST", toks, node, cmd_list(node, FALSE, dbf, dfile))

Display(toks) ==
    /\ dbf.open
    /\ LET node == parse_suffix("CMD_DISPLAY", toks)
       IN  CStep("DISPLAY", toks, node, cmd_list(node, TRUE, dbf, dfile))

CDelete(toks) ==
    /\ dbf.open
    /\ LET node == parse_suffix("CMD_DELETE", toks)
       IN  CStep("DELETE", toks, node, cmd_delete(node, dbf, dfile))

CRecall(toks) ==
    /\ dbf.open
    /\ LET node == parse_suffix("CMD_RECALL", toks)
       IN  CStep("RECALL", toks, node, cmd_recall(node, dbf, dfile))

Replace(value, toks) ==
    /\ dbf.open
    /\ LET node == parse_suffix("CMD_REPLACE", toks)
       IN  CStep("REPLACE", toks, node, cmd_replace(node, value, dbf, dfile))

Count(toks) ==
    /\ dbf.open
    /\ LET node == parse_suffix("CMD_COUNT", toks)
       IN  CStep("COUNT", toks, node, cmd_count(node, dbf, dfile))

Reindex(index_count) ==
    /\ dbf.open
    /\ CStep("REINDEX", <<>>, ast_node_new("CMD_REINDEX"),
             cmd_reindex(index_count, dbf, dfile))

(***************************************************************************)
(* The session context (commands.h): the quit and cancel flags, the number *)
(* of open indexes and the controlling order.  The indexes themselves are  *)
(* not kept; creating and opening an index file succeeds or fails.         *)
(***************************************************************************)

MAX_INDEXES == 10

\* The last session command: its name, its argument, and the index count and
\* order before it.
SLast(op, arg, c) ==
    [op |-> op, arg |-> arg, index_count |-> c.index_count,
     current_order |-> c.current_order]

cmd_context_init ==
    [quit_requested |-> FALSE, cancel_requested |-> FALSE, index_count |-> 0,
     current_order |-> 0,
     last |-> [op |-> "none", arg |-> 0, index_count |-> 0, current_order |-> 0]]

close_indexes(c) == [c EXCEPT !.index_count = 0, !.current_order = 0]

\* The end of cmd_index and of cmd_set_index: the new index joins the list
\* and becomes controlling, or the list is full and it is closed again.
AddIndex(c) ==
    IF c.index_count < MAX_INDEXES
    THEN [c EXCEPT !.index_count = @ + 1, !.current_order = c.index_count + 1]
    ELSE c

\* created tells whether xdx_create gave an index.
cmd_index(c, created) == IF created THEN AddIndex(c) ELSE c

\* filename tells whether SET INDEX TO names a file, opened whether xdx_open
\* gave an index.
cmd_set_index(c, filename, opened) ==
    IF ~filename THEN close_indexes(c)
    ELSE IF opened THEN AddIndex(c)
    ELSE c

NoValue == -99

\* SET ORDER TO that takes any order it is given.
cmd_set_order_unchecked(c, order) ==
    [c EXCEPT !.current_order = IF order = NoValue THEN 0 ELSE order]

\* order is the int the value of SET ORDER TO converts to, NoValue when the
\* command has no value.
cmd_set_order(c, order) ==
    IF order = NoValue THEN [c EXCEPT !.current_order = 0]
    ELSE IF order < 0 \/ order > c.index_count THEN c
    ELSE [c EXCEPT !.current_order = order]

cmd_close(c) == close_indexes(c)

SStep(op, arg, c) ==
    /\ ctx' = [c EXCEPT !.last = SLast(op, arg, ctx)]
    /\ UNCHANGED <<xvars, dbf, dfile, dlast, clast, parser, server, handles, store, put>>

IndexOn(created) ==
    dbf.open /\ SStep("INDEX", IF created THEN 1 ELSE 0, cmd_index(ctx, created))

SetIndex(filename, opened) ==
    SStep("SET INDEX", IF filename THEN 1 ELSE 0,
          cmd_set_index(ctx, filename, opened))

SetOrder(order) == SStep("SET ORDER", order, cmd_set_order(ctx, order))

CloseIndexes == SStep("CLOSE", 0, cmd_close(ctx))

\* cmd_use: the table in use is closed; with a file name the table of that
\* name is opened, when dbf_open succeeds.  The context's indexes are not
\* touched.
cmd_use(c, d, f, filename, opened) ==
    LET closed == IF d.open THEN dbf_close(d, f) ELSE DRes(d, f, TRUE)
    IN  IF filename /\ opened
        THEN [c |-> c, d |-> dbf_open(closed.f, FALSE), f |-> closed.f]
        ELSE [c |-> c, d |-> closed.d, f |-> closed.f]

Use(filename, opened) ==
    LET r == cmd_use(ctx, dbf, dfile, filename, opened)
    IN  /\ ctx' = [r.c EXCEPT !.last = SLast("USE", IF filename THEN 1 ELSE 0, ctx)]
        /\ dbf' = r.d
        /\ dfile' = r.f
        /\ UNCHANGED <<xvars, dlast, clast, parser, server, handles, store, put>>

Cancel == SStep("CANCEL", 0, [ctx EXCEPT !.cancel_requested = TRUE])

(***************************************************************************)
(* A table in use with its controlling index, which xdx holds.  The key of *)
(* the index is the data field; the key buffer of a value is the value     *)
(* padded with spaces, and the keys are numbered in their byte order.      *)
(***************************************************************************)

KeyOf(data) ==
    IF data = Spaces \/ data = "" THEN 1 ELSE IF data = "A" THEN 2 ELSE 3

\* The loop of cmd_index over the records from the cursor to the end.  The
\* values of a pass are named before they are used.
RECURSIVE IndexLoop(_, _, _)
IndexLoop(x, d, f) ==
    IF d.eof THEN [x |-> x, d |-> d, f |-> f]
    ELSE CHOOSE l \in
             {IndexLoop(IF d.deleted THEN x ELSE y, s.d, s.f) :
                  y \in {xdx_insert(x0, key, recno).x :
                             x0 \in {x}, key \in {KeyOf(d.record_buffer.data)},
                             recno \in {d.current_record}},
                  s \in {dbf_skip(d, f, 1)}} : TRUE

\* cmd_index when xdx_create succeeds: the index is built from every record
\* and joins the open indexes.
cmd_index_build(c, d, f) ==
    LET l == CHOOSE r \in {IndexLoop(x, t.d, t.f) :
                               x \in {xdx_create(Order, FALSE, FALSE)},
                               t \in {dbf_go_top(d, f)}} : TRUE
    IN  [c |-> AddIndex(c), x |-> l.x, d |-> l.d, f |-> l.f]

\* cmd_append: a blank record is appended to the table.
cmd_append(d, f) == dbf_append_blank(d, f)

\* cmd_seek for the key of a value: the index is searched and the cursor
\* goes to the record it gives, or past the last record.
cmd_seek(c, x, key, d, f) ==
    IF c.current_order = 0 \/ c.index_count = 0
    THEN [x |-> x, d |-> d, f |-> f]
    ELSE LET y == xdx_seek(x, key)
             g == IF y.current_recno > 0
                  THEN dbf_goto(d, f, y.current_recno)
                  ELSE LET b == dbf_go_bottom(d, f) IN dbf_skip(b.d, b.f, 1)
         IN  [x |-> y, d |-> g.d, f |-> g.f]

\* A command of the indexed session: the context, the index, the handle
\* and the file after it.
IStep(op, arg, c, x, d, f) ==
    /\ ctx' = [c EXCEPT !.last = SLast(op, arg, ctx)]
    /\ xdx' = x
    /\ dbf' = d
    /\ dfile' = f
    /\ UNCHANGED <<xcrashed, xlive, xcalls, xlast, xtrail, dlast, clast, parser,
                   server, handles, store, put>>

IndexBuild ==
    /\ dbf.open
    /\ ctx.index_count = 0
    /\ LET r == cmd_index_build(ctx, dbf, dfile)
       IN  IStep("INDEX", 1, r.c, r.x, r.d, r.f)

AppendRecord ==
    /\ dbf.open
    /\ dbf.record_count < MaxRecs
    /\ LET r == cmd_append(dbf, dfile)
       IN  IStep("APPEND", 0, ctx, xdx, r.d, r.f)

ReplaceKey(value) ==
    /\ dbf.open
    /\ LET r == cmd_replace(parse_suffix("CMD_REPLACE", <<>>), value, dbf, dfile)
       IN  IStep("REPLACE", KeyOf(value), ctx, xdx, r.d, r.f)

GoRecord(recno) ==
    /\ dbf.open
    /\ LET r == dbf_goto(dbf, dfile, recno)
       IN  IStep("GO", recno, ctx, xdx, r.d, r.f)

SeekKey(key) ==
    /\ dbf.open
    /\ LET r == cmd_seek(ctx, xdx, key, dbf, dfile)
       IN  IStep("SEEK", key, ctx, r.x, r.d, r.f)

(***************************************************************************)
(* Memory variables (variables.c).  A slot not in use is kept zeroed: its  *)
(* content is never read.                                                  *)
(***************************************************************************)

MAX_VARIABLES == 2
MAX_SCOPE_DEPTH == 3

Slots == 1..MAX_VARIABLES

\* A name is the sequence of its characters.
Names == {<<"X">>, <<"Y">>}

MAX_FIELD_NAME == 11

LowerLetters ==
    <<"a", "b", "c", "d", "e", "f", "g", "h", "i", "j", "k", "l", "m",
      "n", "o", "p", "q", "r", "s", "t", "u", "v", "w", "x", "y", "z">>

UpperLetters ==
    <<"A", "B", "C", "D", "E", "F", "G", "H", "I", "J", "K", "L", "M",
      "N", "O", "P", "Q", "R", "S", "T", "U", "V", "W", "X", "Y", "Z">>

toupper(c) ==
    IF \E i \in 1..26 : LowerLetters[i] = c
    THEN UpperLetters[CHOOSE i \in 1..26 : LowerLetters[i] = c]
    ELSE c

tolower(c) ==
    IF \E i \in 1..26 : UpperLetters[i] = c
    THEN LowerLetters[CHOOSE i \in 1..26 : UpperLetters[i] = c]
    ELSE c

str_upper(s) == [i \in 1..Len(s) |-> toupper(s[i])]

\* 0 when the two strings are equal but for the case of their letters, 1
\* for every other result.
str_casecmp(s1, s2) ==
    IF [i \in 1..Len(s1) |-> tolower(s1[i])] = [i \in 1..Len(s2) |-> tolower(s2[i])]
    THEN 0 ELSE 1

\* strncpy(var->name, name, MAX_FIELD_NAME - 1) into the zeroed name.
strncpy(name, n) == IF Len(name) <= n THEN name ELSE SubSeq(name, 1, n)

\* A zeroed slot: no name, a value of type VAL_NIL, the first scope.
NoVariable ==
    [name |-> <<>>, value |-> "NIL", scope |-> "SCOPE_PUBLIC", scope_level |-> 0,
     in_use |-> FALSE]

\* The last call on the store: its name, its argument, and the slots and the
\* level before it.
VLast(op, name, v) ==
    [op |-> op, name |-> name, slots |-> v.slots, g_scope_level |-> v.g_scope_level]

var_init ==
    [slots |-> [i \in Slots |-> NoVariable], g_var_count |-> 0,
     g_scope_level |-> 0,
     last |-> [op |-> "init", name |-> <<>>,
               slots |-> [i \in Slots |-> NoVariable], g_scope_level |-> 0]]

\* The slot of the variable of that name, 0 when there is none.
find_var(v, name) ==
    LET hits == {i \in 1..v.g_var_count :
                    v.slots[i].in_use /\ str_casecmp(v.slots[i].name, name) = 0}
    IN  IF hits = {} THEN 0 ELSE CHOOSE i \in hits : \A j \in hits : i <= j

\* The store with a slot for the name and the slot's number, 0 when every
\* slot is taken.  A new variable is PRIVATE at the current level and has
\* the first MAX_FIELD_NAME - 1 characters of the name, in upper case.
get_or_create_var(v, name) ==
    LET found == find_var(v, name)
        free == {i \in Slots : ~v.slots[i].in_use}
        i == CHOOSE k \in free : \A j \in free : k <= j
    IN  IF found # 0 THEN [v |-> v, i |-> found]
        ELSE IF free = {} THEN [v |-> v, i |-> 0]
        ELSE [v |-> [v EXCEPT !.slots[i] =
                                  [name |-> str_upper(strncpy(name, MAX_FIELD_NAME - 1)),
                                   value |-> "NIL",
                                   scope |-> "SCOPE_PRIVATE",
                                   scope_level |-> v.g_scope_level,
                                   in_use |-> TRUE],
                              !.g_var_count = IF i > @ THEN i ELSE @],
              i |-> i]

var_set(v, name, value) ==
    LET g == get_or_create_var(v, name)
    IN  IF g.i = 0 THEN v ELSE [g.v EXCEPT !.slots[g.i].value = value]

Declare(v, name, scope, level) ==
    LET g == get_or_create_var(v, name)
    IN  IF g.i = 0 THEN v
        ELSE [g.v EXCEPT !.slots[g.i].scope = scope,
                         !.slots[g.i].scope_level = level]

var_declare_public(v, name) == Declare(v, name, "SCOPE_PUBLIC", 0)

var_declare_private(v, name) == Declare(v, name, "SCOPE_PRIVATE", v.g_scope_level)

var_declare_local(v, name) == Declare(v, name, "SCOPE_LOCAL", v.g_scope_level)

var_release(v, name) ==
    LET i == find_var(v, name)
    IN  IF i = 0 THEN v ELSE [v EXCEPT !.slots[i] = NoVariable]

var_push_scope(v) ==
    IF v.g_scope_level < MAX_SCOPE_DEPTH - 1
    THEN [v EXCEPT !.g_scope_level = @ + 1]
    ELSE v

\* var_pop_scope that releases every variable of the level, whatever its scope.
var_pop_scope_any_scope(v) ==
    IF v.g_scope_level > 0
    THEN [v EXCEPT !.slots = [i \in Slots |->
                                IF /\ i <= v.g_var_count
                                   /\ v.slots[i].in_use
                                   /\ v.slots[i].scope_level = v.g_scope_level
                                THEN NoVariable ELSE v.slots[i]],
                   !.g_scope_level = @ - 1]
    ELSE v

var_pop_scope(v) ==
    IF v.g_scope_level > 0
    THEN [v EXCEPT !.slots = [i \in Slots |->
                                IF /\ i <= v.g_var_count
                                   /\ v.slots[i].in_use
                                   /\ v.slots[i].scope = "SCOPE_LOCAL"
                                   /\ v.slots[i].scope_level = v.g_scope_level
                                THEN NoVariable ELSE v.slots[i]],
                   !.g_scope_level = @ - 1]
    ELSE v

\* var_cleanup: the values are freed and the count is zeroed.
var_cleanup(v) ==
    [v EXCEPT !.slots = [i \in Slots |->
                            IF i <= v.g_var_count /\ v.slots[i].in_use
                            THEN [v.slots[i] EXCEPT !.value = "NIL"]
                            ELSE v.slots[i]],
              !.g_var_count = 0]

VStep(op, name, v) ==
    /\ store' = [v EXCEPT !.last = VLast(op, name, store)]
    /\ UNCHANGED <<xvars, dbf, dfile, dlast, clast, parser, ctx, server,
                   handles, put>>

VarSet(name, value) == VStep("set", name, var_set(store, name, value))

DeclarePublic(name) == VStep("public", name, var_declare_public(store, name))

DeclarePrivate(name) == VStep("private", name, var_declare_private(store, name))

DeclareLocal(name) == VStep("local", name, var_declare_local(store, name))

Release(name) == VStep("release", name, var_release(store, name))

PushScope == VStep("push", <<>>, var_push_scope(store))

PopScope == VStep("pop", <<>>, var_pop_scope(store))

\* var_get: the value of the variable of that name, "NULL" when find_var
\* finds none.
var_get(v, name) ==
    LET i == find_var(v, name)
    IN  IF i = 0 THEN "NULL" ELSE v.slots[i].value

\* cmd_store: var_set of the value the expression evaluates to; ok is what
\* var_set returns.
Store(name, value) ==
    /\ store' = [var_set(store, name, value) EXCEPT
                    !.last = [op |-> "store", name |-> name, value |-> value,
                              ok |-> get_or_create_var(store, name).i # 0,
                              slots |-> store.slots,
                              g_scope_level |-> store.g_scope_level]]
    /\ UNCHANGED <<xvars, dbf, dfile, dlast, clast, parser, ctx, server,
                   handles, put>>

(***************************************************************************)
(* Server mode (server.c, main.c).  The main thread accepts connections    *)
(* and starts one detached worker for each; a worker runs handle_request.  *)
(* A signal ends the accept loop, after which main cleans up and returns.  *)
(***************************************************************************)

MaxWorkers == 3

Workers == 1..MaxWorkers

NoOwner == 0

\* pc[w] is where worker w stands in handle_request, owner the thread that
\* holds ctx->mutex, main where the main thread stands.
server_init ==
    [pc |-> [w \in Workers |-> "none"], owner |-> NoOwner,
     mutex_initialized |-> TRUE, g_shutdown |-> FALSE, main |-> "accept"]

Running == server.main # "exited"

\* The accept loop takes a connection and starts a worker on it.
Accept(w) ==
    /\ server.main = "accept"
    /\ server.pc[w] = "none"
    /\ server' = [server EXCEPT !.pc[w] = "recv"]
    /\ UNCHANGED <<xvars, dbf, dfile, dlast, clast, parser, ctx, handles, store, put>>

\* SIGINT or SIGTERM.
signal_handler ==
    /\ server.main = "accept"
    /\ ~server.g_shutdown
    /\ server' = [server EXCEPT !.g_shutdown = TRUE]
    /\ UNCHANGED <<xvars, dbf, dfile, dlast, clast, parser, ctx, handles, store, put>>

\* The accept loop sees g_shutdown; server_start returns to main.
server_start_returns ==
    /\ server.main = "accept"
    /\ server.g_shutdown
    /\ server' = [server EXCEPT !.main = "cleanup"]
    /\ UNCHANGED <<xvars, dbf, dfile, dlast, clast, parser, ctx, handles, store, put>>

\* main's cleanup: the indexes and the table are closed and the mutex is
\* destroyed, without taking the lock and without joining the workers.
cmd_context_cleanup ==
    /\ server.main = "cleanup"
    /\ server' = [server EXCEPT !.mutex_initialized = FALSE, !.main = "return"]
    /\ ctx' = [close_indexes(ctx) EXCEPT !.last = SLast("cleanup", 0, ctx)]
    /\ store' = [var_cleanup(store) EXCEPT !.last = VLast("cleanup", <<>>, store)]
    /\ UNCHANGED <<xvars, dbf, dfile, dlast, clast, parser, handles, put>>

\* main returns and the process ends, the workers with it.
MainReturns ==
    /\ server.main = "return"
    /\ server' = [server EXCEPT !.main = "exited"]
    /\ UNCHANGED <<xvars, dbf, dfile, dlast, clast, parser, ctx, handles, store, put>>

\* The request is read; one with a route goes on to the handler, any other
\* (unreadable, OPTIONS, no route, wrong method) straight to the response.
Receive(w, routed) ==
    /\ Running
    /\ server.pc[w] = "recv"
    /\ server' = [server EXCEPT !.pc[w] = IF routed THEN "lock" ELSE "send"]
    /\ UNCHANGED <<xvars, dbf, dfile, dlast, clast, parser, ctx, handles, store, put>>

\* cmd_lock: waits for the mutex when there is one.
cmd_lock(w) ==
    /\ Running
    /\ server.pc[w] = "lock"
    /\ server.mutex_initialized => server.owner = NoOwner
    /\ server' = [server EXCEPT !.pc[w] = "handler",
                                !.owner = IF server.mutex_initialized THEN w ELSE @]
    /\ UNCHANGED <<xvars, dbf, dfile, dlast, clast, parser, ctx, handles, store, put>>

\* route->handler runs on the session and returns.
RouteHandler(w) ==
    /\ Running
    /\ server.pc[w] = "handler"
    /\ server' = [server EXCEPT !.pc[w] = "unlock"]
    /\ UNCHANGED <<xvars, dbf, dfile, dlast, clast, parser, ctx, handles, store, put>>

\* cmd_unlock: releases the mutex when there is one.
cmd_unlock(w) ==
    /\ Running
    /\ server.pc[w] = "unlock"
    /\ server' = [server EXCEPT !.pc[w] = "send",
                                !.owner = IF server.mutex_initialized /\ @ = w
                                          THEN NoOwner ELSE @]
    /\ UNCHANGED <<xvars, dbf, dfile, dlast, clast, parser, ctx, handles, store, put>>

\* The response is sent, the connection closed, and the worker ends.
SendResponse(w) ==
    /\ Running
    /\ server.pc[w] = "send"
    /\ server' = [server EXCEPT !.pc[w] = "none"]
    /\ UNCHANGED <<xvars, dbf, dfile, dlast, clast, parser, ctx, handles, store, put>>

(***************************************************************************)
(* Numeric fields.  Text is a sequence of characters; numbers are whole    *)
(* and the field has no decimals.                                          *)
(***************************************************************************)

MaxWidth == 3
MaxValue == 120

Min(a, b) == IF a < b THEN a ELSE b

Chars(c, n) == [i \in 1..n |-> c]

Digit(n) == <<"0", "1", "2", "3", "4", "5", "6", "7", "8", "9">>[n + 1]

RECURSIVE Digits(_)
Digits(n) == IF n < 10 THEN <<Digit(n)>> ELSE Digits(n \div 10) \o <<Digit(n % 10)>>

\* What printf writes for "%<width>.0f": sign and digits, padded on the left
\* to width, longer than width when they need more.
FormatF(val, width) ==
    LET t == IF val < 0 THEN <<"-">> \o Digits(-val) ELSE Digits(val)
    IN  IF Len(t) >= width THEN t ELSE Chars(" ", width - Len(t)) \o t

\* num_to_str: snprintf with room for width characters keeps the first width
\* characters of the text.
num_to_str(val, width0, decimals) ==
    LET width == IF width0 < 1 THEN 1 ELSE width0
        text == FormatF(val, width)
    IN  SubSeq(text, 1, Min(Len(text), width))

\* What dbf_put_double leaves in a numeric field of the given length.
PutDoubleField(length, value) ==
    LET buf == num_to_str(value, length, 0)
        len == Min(Len(buf), length)
    IN  Chars(" ", length - len) \o SubSeq(buf, 1, len)

NoPut ==
    [op |-> "none", field_index |-> 0, length |-> 0, value |-> 0, ok |-> TRUE,
     error |-> "ERR_NONE", field |-> <<>>]

\* dbf_put_double on a numeric field of the given length, the table writable
\* and on a record.
PutDouble(length, value) ==
    /\ put' = [op |-> "put_double", field_index |-> 0, length |-> length,
               value |-> value, ok |-> TRUE, error |-> put.error,
               field |-> PutDoubleField(length, value)]
    /\ UNCHANGED <<xvars, dbf, dfile, dlast, clast, parser, ctx, server,
                   handles, store>>

\* The checks every put starts with; none of them sets an error code.
PutRefused(d, field_index) ==
    \/ d.readonly
    \/ field_index < 0 \/ field_index >= Len(d.fields)
    \/ d.current_record = 0 \/ d.eof

\* A put's effect: the handle, the file, the value returned and the error
\* code afterwards.
PutRes(d, f, ok, error) == [d |-> d, f |-> f, ok |-> ok, error |-> error]

dbf_put_string_at(d, f, field_index, value, error) ==
    IF PutRefused(d, field_index)
    THEN PutRes(d, f, FALSE, error)
    ELSE LET r == dbf_put_string(d, f, value)
         IN  PutRes(r.d, r.f, r.ok, error)

\* The fields of the model's tables are character fields, which
\* dbf_put_double turns down.
dbf_put_double_at(d, f, field_index, value, error) ==
    IF PutRefused(d, field_index)
    THEN PutRes(d, f, FALSE, error)
    ELSE PutRes(d, f, FALSE, "ERR_TYPE_MISMATCH")

PutStep(op, field_index, r) ==
    /\ dbf' = r.d
    /\ dfile' = r.f
    /\ dlast' = DLast(op, r.ok, 0, 0)
    /\ put' = [op |-> op, field_index |-> field_index, length |-> 0,
               value |-> 0, ok |-> r.ok, error |-> r.error, field |-> <<>>]
    /\ UNCHANGED <<xvars, clast, parser, ctx, server, handles, store>>

PutStringAt(field_index, value) ==
    /\ dbf.open
    /\ PutStep("put_string", field_index,
               dbf_put_string_at(dbf, dfile, field_index, value, put.error))

PutDoubleAt(field_index, value) ==
    /\ dbf.open
    /\ PutStep("put_double", field_index,
               dbf_put_double_at(dbf, dfile, field_index, value, put.error))

(***************************************************************************)
(* Handles.  dbf_close and xdx_close take the handle by value and release  *)
(* what it points to; the caller's copy then points at released memory.    *)
(* The table handle is released when the last call on the table was a      *)
(* close; handles.xdx tells the same of the index handle.  A close of a    *)
(* released handle is undefined: it reads the released structure and       *)
(* either returns or is stopped by the allocator.                          *)
(***************************************************************************)

NoRelease ==
    [xdx |-> "live", op |-> "none", read_released |-> FALSE, outcome |-> "none"]

Aborted == handles.outcome = "abort"

DbfReleased == ~dbf.open /\ dlast.op = "close"

\* xdx_close of the live index: flushed, its root and key buffer freed, the
\* file closed, the structure freed.
XClose ==
    /\ ~Aborted
    /\ ~xcrashed
    /\ handles.xdx = "live"
    /\ handles' = [handles EXCEPT !.xdx = "released"]
    /\ xdx' = [xdx EXCEPT !.modified = FALSE]
    /\ xlast' = XLast("close", 0, 0, TRUE, "none", 0)
    /\ UNCHANGED <<xcrashed, xlive, xcalls, xtrail, dbf, dfile, dlast, clast,
                   parser, ctx, server, store, put>>

\* The outcomes of free() on memory that is already free.
DoubleFreeOutcomes == {"return", "abort"}

\* dbf_close of a released handle: the handle is not NULL, so dbf->modified
\* and dbf->fp are read and the three blocks are freed again.
DbfCloseAgain ==
    /\ ~Aborted
    /\ DbfReleased
    /\ \E outcome \in DoubleFreeOutcomes :
          handles' = [handles EXCEPT !.op = "dbf_close", !.read_released = TRUE,
                                     !.outcome = outcome]
    /\ UNCHANGED <<xvars, dbf, dfile, dlast, clast, parser, ctx, server, store, put>>

\* xdx_close of a released handle: the handle is not NULL, so xdx_flush reads
\* xdx->fp, and the root, the key buffer and the structure are freed again.
XCloseAgain ==
    /\ ~Aborted
    /\ handles.xdx = "released"
    /\ \E outcome \in DoubleFreeOutcomes :
          handles' = [handles EXCEPT !.op = "xdx_close", !.read_released = TRUE,
                                     !.outcome = outcome]
    /\ UNCHANGED <<xvars, dbf, dfile, dlast, clast, parser, ctx, server, store, put>>

(***************************************************************************)
(* The command parser (parser.c) over a line of tokens.  An expression is  *)
(* one token, and the count of NEXT and RECORD is part of their token.     *)
(* The lines begin with a command word or with a token that begins no      *)
(* command.                                                                *)
(***************************************************************************)

Tok(kw) == Clause(kw, NoCount, NoExpr)

TOK_NEWLINE == Tok("NEWLINE")

\* The NULL parser_parse_command returns.
NullNode == ast_node_new("NULL")

check(input, kw) == input # <<>> /\ Head(input).kw = kw

RECURSIVE skip_newlines(_)
skip_newlines(input) ==
    IF check(input, "NEWLINE") THEN skip_newlines(Tail(input)) ELSE input

\* The tokens after the end of the line: synchronize, and the loop that ends
\* parser_parse_command.
RECURSIVE synchronize(_)
synchronize(input) ==
    IF input = <<>> THEN input
    ELSE IF check(input, "NEWLINE") THEN Tail(input)
    ELSE synchronize(Tail(input))

PRes(input, had_error, node) ==
    [input |-> input, had_error |-> had_error, node |-> node]

\* The pairs FIELD WITH expr of parse_replace, then its suffix.
RECURSIVE parse_replace(_, _)
parse_replace(input, node) ==
    IF ~check(input, "IDENT")
    THEN PRes(input, TRUE, node)
    ELSE IF ~check(Tail(input), "WITH")
    THEN PRes(Tail(input), TRUE, node)
    ELSE IF ~check(Tail(Tail(input)), "EXPR")
    THEN PRes(Tail(Tail(input)), TRUE, node)
    ELSE LET rest == Tail(Tail(Tail(input)))
         IN  IF check(rest, "COMMA")
             THEN parse_replace(Tail(rest), node)
             ELSE LET s == parse_scope(rest)
                      c == parse_conditions(s.rest, [node EXCEPT !.scope = s.scope])
                  IN  PRes(c.rest, FALSE, c.node)

\* parse_delete and parse_count up to the end of their suffix.
parse_delete(input, type) ==
    LET s == parse_scope(input)
        c == parse_conditions(s.rest, [ast_node_new(type) EXCEPT !.scope = s.scope])
    IN  PRes(c.rest, FALSE, c.node)

parser_parse_command(input0, had_error) ==
    LET input == skip_newlines(input0)
    IN  IF input = <<>>
        THEN PRes(input, had_error, NullNode)
        ELSE LET kw == Head(input).kw
                 r == IF kw = "DELETE" THEN parse_delete(Tail(input), "CMD_DELETE")
                      ELSE IF kw = "RECALL" THEN parse_delete(Tail(input), "CMD_RECALL")
                      ELSE IF kw = "COUNT" THEN parse_delete(Tail(input), "CMD_COUNT")
                      ELSE parse_replace(Tail(input), ast_node_new("CMD_REPLACE"))
             IN  IF kw \in {"DELETE", "RECALL", "COUNT", "REPLACE"}
                 THEN PRes(synchronize(r.input), had_error \/ r.had_error, r.node)
                 ELSE PRes(synchronize(input), TRUE, NullNode)

\* The parser after parser_init and any number of parser_parse_command:
\* before is the input the last call started from, erred tells that the
\* last call met a syntax error, calls counts the calls.
Parser(input, had_error, node, before, erred, calls) ==
    [input |-> input, had_error |-> had_error, node |-> node,
     before |-> before, erred |-> erred, calls |-> calls]

NoParser == Parser(<<>>, FALSE, NullNode, <<>>, FALSE, 0)

parser_init(input) == Parser(input, FALSE, NullNode, input, FALSE, 0)

ParserInit(input) ==
    /\ parser' = parser_init(input)
    /\ UNCHANGED <<xvars, dbf, dfile, dlast, clast, ctx, server, handles, store, put>>

ParseCommand ==
    /\ parser.input # <<>>
    /\ LET r == parser_parse_command(parser.input, parser.had_error)
           erred == parser_parse_command(parser.input, FALSE).had_error
       IN  parser' = Parser(r.input, r.had_error, r.node, parser.input,
                            erred, parser.calls + 1)
    /\ UNCHANGED <<xvars, dbf, dfile, dlast, clast, ctx, server, handles, store, put>>

(***************************************************************************)
(* The parser over a program of several lines, some of which begin with an *)
(* identifier: an assignment (IDENT EQ EXPR) or a name standing alone.     *)
(* all is the text the lexer was initialised with.                         *)
(***************************************************************************)

\* parse_assignment with the identifier consumed: the = and the expression.
parse_assignment(input) ==
    IF check(Tail(input), "EXPR")
    THEN PRes(Tail(Tail(input)), FALSE, ast_node_new("CMD_STORE"))
    ELSE PRes(Tail(input), TRUE, ast_node_new("CMD_STORE"))

\* The switch of parser_parse_command on the token at the head of input and
\* the loop to the end of the line after it.
parse_switch(input, had_error) ==
    IF input = <<>> \/ check(input, "NEWLINE")
    THEN PRes(synchronize(input), TRUE, NullNode)
    ELSE IF check(input, "IDENT")
    THEN IF check(Tail(input), "EQ")
         THEN LET a == parse_assignment(Tail(input))
              IN  PRes(synchronize(a.input), had_error \/ a.had_error, a.node)
         ELSE PRes(synchronize(Tail(input)), had_error, ast_node_new("CMD_QUESTION"))
    ELSE parser_parse_command(input, had_error)

\* parser_parse_command with its test for an assignment before the switch:
\* an assignment is returned at once; for any other identifier the lexer is
\* initialised again with its input, the whole text.
parser_parse_command_in(all, input0, had_error) ==
    LET input == skip_newlines(input0)
    IN  IF input = <<>> THEN PRes(input, had_error, NullNode)
        ELSE IF check(input, "IDENT")
        THEN IF check(Tail(input), "EQ")
             THEN LET a == parse_assignment(Tail(input))
                  IN  PRes(a.input, had_error \/ a.had_error, a.node)
             ELSE parse_switch(all, had_error)
        ELSE parse_switch(input, had_error)

\* The parser of a program: the text, what is left of it, the node of the
\* last call and the number of calls.
ProgramParser(all, input, had_error, node, before, calls) ==
    [all |-> all, input |-> input, had_error |-> had_error, node |-> node,
     before |-> before, calls |-> calls]

ProgramInit(all) ==
    /\ parser' = ProgramParser(all, all, FALSE, NullNode, all, 0)
    /\ UNCHANGED <<xvars, dbf, dfile, dlast, clast, ctx, server, handles, store, put>>

ProgramCommand ==
    /\ "all" \in DOMAIN parser
    /\ parser.input # <<>>
    /\ parser.calls < MaxCalls
    /\ LET r == parser_parse_command_in(parser.all, parser.input, parser.had_error)
       IN  parser' = ProgramParser(parser.all, r.input, r.had_error, r.node,
                                   parser.input, parser.calls + 1)
    /\ UNCHANGED <<xvars, dbf, dfile, dlast, clast, ctx, server, handles, store, put>>

(***************************************************************************)
(* A line is parsed and executed by execute_line (the REPL, a program file *)
(* and the -c option all call it) or by handle_execute (POST /execute).    *)
(***************************************************************************)

\* node->data.replace.count when parse_replace returns: the FIELD WITH expr
\* pairs that were complete.
RECURSIVE replace_count(_)
replace_count(input) ==
    IF ~check(input, "IDENT") \/ ~check(Tail(input), "WITH")
          \/ ~check(Tail(Tail(input)), "EXPR")
    THEN 0
    ELSE LET rest == Tail(Tail(Tail(input)))
         IN  1 + (IF check(rest, "COMMA") THEN replace_count(Tail(rest)) ELSE 0)

\* cmd_replace of a node of count pairs: with no pair the body of the loop
\* is the dbf_flush alone.
cmd_replace_pairs(node, count, value, d, f) ==
    IF count > 0 THEN cmd_replace(node, value, d, f)
    ELSE IF d.eof \/ d.current_record = 0
    THEN CRes(d, f, <<>>, <<>>, NoReport, FALSE)
    ELSE LET b == dbf_flush(d, f)
         IN  CRes(b.d, b.f, <<>>, <<d.current_record>>, 1, FALSE)

\* cmd_execute on the node of a line; value is what the expressions of a
\* REPLACE evaluate to.
cmd_execute(node, line, value, d, f) ==
    IF node.type = "CMD_DELETE" THEN cmd_delete(node, d, f)
    ELSE IF node.type = "CMD_RECALL" THEN cmd_recall(node, d, f)
    ELSE IF node.type = "CMD_COUNT" THEN cmd_count(node, d, f)
    ELSE cmd_replace_pairs(node, replace_count(Tail(skip_newlines(line))), value, d, f)

\* What a line changes when no command runs.
NotExecuted(d, f) == [CRes(d, f, <<>>, <<>>, NoReport, FALSE) EXCEPT !.said = "none"]

\* execute_line: a line the parser reports an error on is dropped.
execute_line(line, value, d, f) ==
    LET r == parser_parse_command(line, FALSE)
    IN  IF r.had_error THEN NotExecuted(d, f)
        ELSE IF r.node # NullNode THEN cmd_execute(r.node, line, value, d, f)
        ELSE NotExecuted(d, f)

\* handle_execute: the node is executed whenever there is one.
handle_execute(line, value, d, f) ==
    LET r == parser_parse_command(line, FALSE)
    IN  IF r.node # NullNode THEN cmd_execute(r.node, line, value, d, f)
        ELSE NotExecuted(d, f)

\* The parser of the call is kept with the line it was given.
ExecStep(verb, line, r) ==
    /\ clast.seq < MaxCommands
    /\ dbf' = r.d
    /\ dfile' = r.f
    /\ LET q == parser_parse_command(line, FALSE)
       IN  /\ parser' = Parser(q.input, q.had_error, q.node, line, q.had_error, 1)
           /\ clast' = CLast(clast.seq + 1, verb, line, q.node, dbf, dfile, r)
    /\ UNCHANGED <<xvars, dlast, ctx, server, handles, store, put>>

ExecuteLine(line, value) ==
    dbf.open /\ ExecStep("execute_line", line, execute_line(line, value, dbf, dfile))

HandleExecute(line, value) ==
    dbf.open /\ ExecStep("handle_execute", line, handle_execute(line, value, dbf, dfile))

(***************************************************************************)
(* Specifications                                                          *)
(***************************************************************************)

\* An index just created, with any flags; no table handle and no table file.
Init ==
    /\ \E unique \in BOOLEAN, descending \in BOOLEAN :
          xdx = xdx_create(Order, unique, descending)
    /\ xcrashed = FALSE
    /\ xlive = {}
    /\ xcalls = [inserts |-> 0, deletes |-> 0]
    /\ xlast = XLast("create", 0, 0, TRUE, "none", 0)
    /\ xtrail = <<>>
    /\ dbf = DbfClosed
    /\ dfile = NoFile
    /\ dlast = DLast("none", TRUE, 0, 0)
    /\ clast = NoCommand
    /\ parser = NoParser
    /\ ctx = cmd_context_init
    /\ server = server_init
    /\ handles = NoRelease
    /\ store = var_init
    /\ put = NoPut

\* The index engine under every operation.
XdxSpec == Init /\ [][XNext]_vars

\* An index that is built by inserts and searched.
XBuildNext ==
    \/ \E key \in Keys, recno \in Recnos : Insert(key, recno)
    \/ \E key \in Keys : Seek(key)

XdxBuildSpec == Init /\ [][XBuildNext]_vars

\* A UNIQUE index that is built, by more inserts than it has keys, and
\* searched.
XUniqueInit ==
    /\ \E descending \in BOOLEAN : xdx = xdx_create(Order, TRUE, descending)
    /\ xcrashed = FALSE
    /\ xlive = {}
    /\ xcalls = [inserts |-> 0, deletes |-> 0]
    /\ xlast = XLast("create", 0, 0, TRUE, "none", 0)
    /\ xtrail = <<>>
    /\ dbf = DbfClosed
    /\ dfile = NoFile
    /\ dlast = DLast("none", TRUE, 0, 0)
    /\ clast = NoCommand
    /\ parser = NoParser
    /\ ctx = cmd_context_init
    /\ server = server_init
    /\ handles = NoRelease
    /\ store = var_init
    /\ put = NoPut

XUniqueNext ==
    \/ \E key \in Keys, recno \in 1..MaxBuild : Insert(key, recno)
    \/ \E key \in Keys : Seek(key)

XdxUniqueSpec == XUniqueInit /\ [][XUniqueNext]_vars

\* The record-file engine; the index stays as created.
DbfInit ==
    /\ xdx = xdx_create(Order, FALSE, FALSE)
    /\ xcrashed = FALSE
    /\ xlive = {}
    /\ xcalls = [inserts |-> 0, deletes |-> 0]
    /\ xlast = XLast("create", 0, 0, TRUE, "none", 0)
    /\ xtrail = <<>>
    /\ dbf = DbfClosed
    /\ dfile = NoFile
    /\ dlast = DLast("none", TRUE, 0, 0)
    /\ clast = NoCommand
    /\ parser = NoParser
    /\ ctx = cmd_context_init
    /\ server = server_init
    /\ handles = NoRelease
    /\ store = var_init
    /\ put = NoPut

DbfSpec == DbfInit /\ [][DNext]_vars

\* A table of any record count the header can hold, opened and navigated by
\* skips of any count but INT_MIN (whose negation is undefined).
SkipInit ==
    /\ xdx = xdx_create(Order, FALSE, FALSE)
    /\ xcrashed = FALSE
    /\ xlive = {}
    /\ xcalls = [inserts |-> 0, deletes |-> 0]
    /\ xlast = XLast("create", 0, 0, TRUE, "none", 0)
    /\ xtrail = <<>>
    /\ \E n \in 0..(UIntMod - 1) :
          /\ dfile = [dbf_create(OneField).f EXCEPT
                          !.record_count = n,
                          !.recs = [i \in 1..n |-> BlankRec]]
          /\ dbf = dbf_open(dfile, TRUE)
    /\ dlast = DLast("open", TRUE, 0, 0)
    /\ clast = NoCommand
    /\ parser = NoParser
    /\ ctx = cmd_context_init
    /\ server = server_init
    /\ handles = NoRelease
    /\ store = var_init
    /\ put = NoPut

SkipNext ==
    \/ \E count \in (IntMin + 1)..IntMax : DSkip(count)
    \/ DGoTop
    \/ DGoBottom

SkipSpec == SkipInit /\ [][SkipNext]_vars

\* Tables of every layout of up to MaxFields character fields of up to
\* MaxFieldLen characters, under the operations that write the file.
Layouts ==
    UNION {[1..n -> 1..MaxFieldLen] : n \in 1..MaxFields}

LayoutNext ==
    \/ \E fields \in Layouts : Create(fields)
    \/ \E readonly \in BOOLEAN : Open(readonly)
    \/ Close
    \/ DSkip(1)
    \/ DGoTop
    \/ AppendBlank
    \/ DDelete
    \/ Recall
    \/ Pack
    \/ Zap

DbfLayoutSpec == DbfInit /\ [][LayoutNext]_vars

\* The suffixes written scope first, then FOR, then WHILE, each optional.
ScopeClauses ==
    {Clause("ALL", NoCount, NoExpr), Clause("REST", NoCount, NoExpr)}
        \cup {Clause("NEXT", n, NoExpr) : n \in 1..MaxNext}
        \cup {Clause("RECORD", n, NoExpr) : n \in 1..MaxNext}

ForClauses == {Clause("FOR", NoCount, DataIsA)}

WhileClauses == {Clause("WHILE", NoCount, DataIsA)}

Optional(clauses) == {<<>>} \cup {<<c>> : c \in clauses}

Suffixes ==
    {a \o b \o c : a \in Optional(ScopeClauses), b \in Optional(ForClauses),
                   c \in Optional(WhileClauses)}

\* A table of up to MaxRows records, none deleted, in use; the cursor is
\* moved by GO, records are deleted one by one, and up to MaxCommands
\* iterating commands run, with every suffix.
CmdInit ==
    /\ xdx = xdx_create(Order, FALSE, FALSE)
    /\ xcrashed = FALSE
    /\ xlive = {}
    /\ xcalls = [inserts |-> 0, deletes |-> 0]
    /\ xlast = XLast("create", 0, 0, TRUE, "none", 0)
    /\ xtrail = <<>>
    /\ \E n \in 0..MaxRows :
          \E data \in [1..n -> {Spaces, "A"}] :
             /\ dfile = [dbf_create(OneField).f EXCEPT
                             !.record_count = n,
                             !.recs = [i \in 1..n |->
                                          Rec(DBF_RECORD_ACTIVE, data[i])]]
             /\ dbf = dbf_open(dfile, FALSE)
    /\ dlast = DLast("open", TRUE, 0, 0)
    /\ clast = NoCommand
    /\ parser = NoParser
    /\ ctx = cmd_context_init
    /\ server = server_init
    /\ handles = NoRelease
    /\ store = var_init
    /\ put = NoPut

CmdNext ==
    \/ \E recno \in 0..(MaxRows + 1) : Goto(recno)
    \/ DDelete
    \/ \E toks \in Suffixes : List(toks)
    \/ \E toks \in Suffixes : Display(toks)
    \/ \E toks \in Suffixes : CDelete(toks)
    \/ \E toks \in Suffixes : CRecall(toks)
    \/ \E toks \in Suffixes, value \in {"", "A"} : Replace(value, toks)
    \/ \E toks \in Suffixes : Count(toks)

CmdSpec == CmdInit /\ [][CmdNext]_vars

\* Every order of the clauses of a suffix.
AllOrders(toks) ==
    {t \in [1..Len(toks) -> {toks[i] : i \in 1..Len(toks)}] :
        \A i \in 1..Len(toks) : \E j \in 1..Len(toks) : t[j] = toks[i]}

PermutedSuffixes == UNION {AllOrders(toks) : toks \in Suffixes}

\* Lines of DELETE, RECALL and COUNT with a suffix in any order, REPLACE
\* with one or two fields and a suffix, REPLACE with its field name, its
\* WITH or its expression missing, and a line that begins no command; each
\* alone or followed by a second line.
GoodLines ==
    {<<Tok(kw)>> \o toks : kw \in {"DELETE", "RECALL", "COUNT"},
                           toks \in PermutedSuffixes}
        \cup {<<Tok("REPLACE"), Tok("IDENT"), Tok("WITH"), Tok("EXPR")>> \o toks :
                  toks \in Suffixes}
        \cup {<<Tok("REPLACE"), Tok("IDENT"), Tok("WITH"), Tok("EXPR"),
                Tok("COMMA"), Tok("IDENT"), Tok("WITH"), Tok("EXPR")>>}

BadLines ==
    {<<Tok("REPLACE"), Tok("WITH"), Tok("EXPR")>>,
     <<Tok("REPLACE"), Tok("IDENT"), Tok("EXPR")>>,
     <<Tok("REPLACE"), Tok("IDENT"), Tok("WITH")>>,
     <<Tok("REPLACE"), Tok("IDENT"), Tok("WITH"), Tok("EXPR"), Tok("COMMA")>>,
     <<Tok("RPAREN"), Tok("EXPR")>>}

Inputs ==
    {line \o rest : line \in GoodLines \cup BadLines,
                    rest \in {<<>>, <<TOK_NEWLINE, Tok("RECALL")>>}}

ParseInit ==
    /\ xdx = xdx_create(Order, FALSE, FALSE)
    /\ xcrashed = FALSE
    /\ xlive = {}
    /\ xcalls = [inserts |-> 0, deletes |-> 0]
    /\ xlast = XLast("create", 0, 0, TRUE, "none", 0)
    /\ xtrail = <<>>
    /\ dbf = DbfClosed
    /\ dfile = NoFile
    /\ dlast = DLast("none", TRUE, 0, 0)
    /\ clast = NoCommand
    /\ parser = NoParser
    /\ ctx = cmd_context_init
    /\ server = server_init
    /\ handles = NoRelease
    /\ store = var_init
    /\ put = NoPut

ParseNext ==
    \/ \E input \in Inputs : ParserInit(input)
    \/ ParseCommand

ParseSpec == ParseInit /\ [][ParseNext]_vars

\* A table in use with its index, open in the session or not: pairs are
\* inserted into the index, records are deleted, and REINDEX runs.
ReindexNext ==
    \/ \E key \in 1..2, recno \in 1..MaxRows : Insert(key, recno)
    \/ \E recno \in 0..(MaxRows + 1) : Goto(recno)
    \/ DDelete
    \/ \E index_count \in {0, 1} : Reindex(index_count)

ReindexSpec == CmdInit /\ [][ReindexNext]_vars

\* Variables are set, declared and released while scopes open and close.
VarNext ==
    \/ \E name \in Names : VarSet(name, "a")
    \/ \E name \in Names : DeclarePublic(name)
    \/ \E name \in Names : DeclarePrivate(name)
    \/ \E name \in Names : DeclareLocal(name)
    \/ \E name \in Names : Release(name)
    \/ PushScope
    \/ PopScope

VarSpec == Init /\ [][VarNext]_vars

\* Values are stored under names of one character, of MAX_FIELD_NAME - 1
\* characters and of more, in either case, and variables are released.
LongName == <<"C", "u", "s", "t", "o", "m", "e", "r", "N", "a", "m", "e">>

StoreNames ==
    {<<"X">>, <<"x">>, LongName, SubSeq(LongName, 1, MAX_FIELD_NAME - 1),
     SubSeq(LongName, 1, MAX_FIELD_NAME)}

NameNext ==
    \/ \E name \in StoreNames, value \in {"a", "b"} : Store(name, value)
    \/ \E name \in StoreNames : Release(name)

NameSpec == Init /\ [][NameNext]_vars

\* A table is created, opened for writing or for reading, filled and walked,
\* and values are put into fields in and out of range.
PutNext ==
    \/ Create(OneField)
    \/ \E readonly \in BOOLEAN : Open(readonly)
    \/ Close
    \/ \E recno \in 0..(MaxRows + 1) : Goto(recno)
    \/ \E count \in {-1, 1} : DSkip(count)
    \/ dfile.record_count < MaxRows /\ AppendBlank
    \/ \E field_index \in -1..1, value \in {"", "A"} :
          PutStringAt(field_index, value)
    \/ \E field_index \in -1..1, value \in {0, 1} :
          PutDoubleAt(field_index, value)

PutSpec == DbfInit /\ [][PutNext]_vars

\* Numbers of every size are put into numeric fields of every width.
NumNext ==
    \E length \in 1..MaxWidth, value \in (-MaxValue)..MaxValue :
        PutDouble(length, value)

NumSpec == DbfInit /\ [][NumNext]_vars

\* The order in the header of the index file that xdx_open reads.
FileOrder == 3

\* An index of order FileOrder, opened empty, is built and searched.
SmallOrderInit ==
    /\ xdx = xdx_create(FileOrder, FALSE, FALSE)
    /\ xcrashed = FALSE
    /\ xlive = {}
    /\ xcalls = [inserts |-> 0, deletes |-> 0]
    /\ xlast = XLast("create", 0, 0, TRUE, "none", 0)
    /\ xtrail = <<>>
    /\ dbf = DbfClosed
    /\ dfile = NoFile
    /\ dlast = DLast("none", TRUE, 0, 0)
    /\ clast = NoCommand
    /\ parser = NoParser
    /\ ctx = cmd_context_init
    /\ server = server_init
    /\ handles = NoRelease
    /\ store = var_init
    /\ put = NoPut

SmallOrderNext ==
    \/ \E key \in Keys, recno \in Recnos : Insert(key, recno)
    \/ \E key \in Keys : Seek(key)
    \/ GoTop
    \/ GoBottom

SmallOrderSpec == SmallOrderInit /\ [][SmallOrderNext]_vars

\* An index of order FileOrder takes up to MaxInserts entries.
FillNext == \E key \in Keys, recno \in 1..MaxInserts : Insert(key, recno)

FillSpec == SmallOrderInit /\ [][FillNext]_vars

\* Programs of up to MaxLines lines, each a command, an assignment or a
\* name, are parsed command by command.
ProgramLines ==
    {<<Tok("DELETE")>>, <<Tok("COUNT")>>,
     <<Tok("REPLACE"), Tok("IDENT"), Tok("WITH"), Tok("EXPR")>>,
     <<Tok("IDENT"), Tok("EQ"), Tok("EXPR")>>,
     <<Tok("IDENT")>>}

RECURSIVE Join(_)
Join(lines) ==
    IF Len(lines) = 1 THEN Head(lines)
    ELSE Head(lines) \o <<TOK_NEWLINE>> \o Join(Tail(lines))

Programs ==
    UNION {{Join(lines) : lines \in [1..n -> ProgramLines]} : n \in 1..MaxLines}

ProgramNext ==
    \/ \E all \in Programs : ProgramInit(all)
    \/ ProgramCommand

ProgramSpec == ParseInit /\ [][ProgramNext]_vars

\* Lines with and without syntax errors are submitted at the prompt and
\* to the execute endpoint, on a table whose cursor has been moved.
ExecLines ==
    BadLines \cup {<<Tok("REPLACE"), Tok("IDENT"), Tok("WITH"), Tok("EXPR")>>,
                   <<Tok("DELETE")>>, <<Tok("COUNT")>>}

ExecNext ==
    \/ \E recno \in 0..(MaxRows + 1) : Goto(recno)
    \/ DDelete
    \/ \E line \in ExecLines, value \in {"", "A"} : ExecuteLine(line, value)
    \/ \E line \in ExecLines, value \in {"", "A"} : HandleExecute(line, value)

ExecSpec == CmdInit /\ [][ExecNext]_vars

\* A table is filled, edited, packed and emptied on a disk whose writes fail.
FaultNext ==
    \/ Create(OneField)
    \/ \E readonly \in BOOLEAN : Open(readonly)
    \/ Close
    \/ \E recno \in 1..MaxRecs : Goto(recno)
    \/ DDelete
    \/ PutString("a")
    \/ \E fault \in AppendFaults : AppendBlankIO(fault)
    \/ \E fault \in PackFaults : PackIO(fault)
    \/ \E fault \in ZapFaults : ZapIO(fault)

FaultSpec == DbfInit /\ [][FaultNext]_vars

\* A table and an index are used and closed, and closed again.
HandleNext ==
    \/ ~Aborted /\ Create(OneField)
    \/ ~Aborted /\ \E readonly \in BOOLEAN : Open(readonly)
    \/ ~Aborted /\ AppendBlank
    \/ ~Aborted /\ \E value \in {"", "A"} : PutString(value)
    \/ ~Aborted /\ Close
    \/ DbfCloseAgain
    \/ ~Aborted /\ handles.xdx = "live"
          /\ \E key \in 1..2, recno \in Recnos : Insert(key, recno)
    \/ XClose
    \/ XCloseAgain

HandleSpec == DbfInit /\ [][HandleNext]_vars

\* A table in use: the cursor is moved and DELETE is given again and again.
DeleteTwiceNext ==
    \/ \E recno \in 0..(MaxRows + 1) : Goto(recno)
    \/ DeleteCurrent

DeleteTwiceSpec == CmdInit /\ [][DeleteTwiceNext]_vars

\* A table in use: CANCEL, and one iterating command with any suffix.
CancelNext ==
    \/ Cancel
    \/ \E toks \in Suffixes : List(toks)
    \/ \E toks \in Suffixes : CDelete(toks)
    \/ \E toks \in Suffixes, value \in {"", "A"} : Replace(value, toks)
    \/ \E toks \in Suffixes : Count(toks)

CancelSpec == CmdInit /\ [][CancelNext]_vars

\* A table in use: indexes are created, opened and closed, and the order is
\* set to any value around the range of the open indexes.
SessionNext ==
    \/ \E created \in BOOLEAN : IndexOn(created)
    \/ \E filename \in BOOLEAN, opened \in BOOLEAN : SetIndex(filename, opened)
    \/ \E order \in {NoValue} \cup (-2..(MAX_INDEXES + 2)) : SetOrder(order)
    \/ CloseIndexes

SessionSpec == CmdInit /\ [][SessionNext]_vars

\* Tables are put in use and closed by USE while indexes are created,
\* opened and selected.
UseNext ==
    \/ \E created \in BOOLEAN : IndexOn(created)
    \/ \E filename \in BOOLEAN, opened \in BOOLEAN : SetIndex(filename, opened)
    \/ \E order \in 0..MaxOrders : SetOrder(order)
    \/ \E filename \in BOOLEAN, opened \in BOOLEAN : Use(filename, opened)

UseSpec == CmdInit /\ [][UseNext]_vars

\* A table is indexed on its data field; then records are appended and
\* their data replaced, and keys are sought.
IndexedNext ==
    \/ IndexBuild
    \/ ctx.index_count > 0 /\ dbf.record_count < MaxRows /\ AppendRecord
    \/ ctx.index_count > 0 /\ \E value \in {"", "A"} : ReplaceKey(value)
    \/ ctx.index_count > 0 /\ \E recno \in 1..MaxRows : GoRecord(recno)
    \/ ctx.index_count > 0 /\ \E key \in 1..2 : SeekKey(key)

IndexedSpec == CmdInit /\ [][IndexedNext]_vars

\* Server mode from the start of main to its return.
ServerNext ==
    \/ \E w \in Workers : Accept(w)
    \/ signal_handler
    \/ server_start_returns
    \/ cmd_context_cleanup
    \/ MainReturns
    \/ \E w \in Workers, routed \in BOOLEAN : Receive(w, routed)
    \/ \E w \in Workers : cmd_lock(w)
    \/ \E w \in Workers : RouteHandler(w)
    \/ \E w \in Workers : cmd_unlock(w)
    \/ \E w \in Workers : SendResponse(w)

ServerSpec == Init /\ [][ServerNext]_vars

(***************************************************************************)
(* Properties of the index engine                                          *)
(***************************************************************************)

\* The live pairs whose key compares equal to key, greater than it, and the
\* live pairs no live pair sorts before or after.
LiveEqual(key) == {p \in xlive : xdx_key_compare(xdx, p[1], key) = 0}

LiveGreater(key) == {p \in xlive : xdx_key_compare(xdx, p[1], key) > 0}

Lowest(pairs) ==
    {p \in pairs : \A q \in pairs : xdx_key_compare(xdx, p[1], q[1]) <= 0}

Highest(pairs) ==
    {p \in pairs : \A q \in pairs : xdx_key_compare(xdx, p[1], q[1]) >= 0}

RecnosOf(pairs) == {p[2] : p \in pairs}

KeyOfRecno(recno) == (CHOOSE p \in xlive : p[2] = recno)[1]

InsertThenSeek == xlast.op = "seek" /\ xlast.pre # 0

\* C1 (as stated): a successful Insert(key, recno) followed by Seek(key)
\* sets found to true and current_recno to recno.
C1_SeekReturnsInsertedRecno ==
    InsertThenSeek => xdx.found /\ xdx.current_recno = xlast.pre

\* C1 (amended): a successful Insert(key, recno) followed by Seek(key) sets
\* found to true and current_recno to the record number of an entry of the
\* index whose key compares equal to key; that entry is the inserted one
\* when no other entry of the index has an equal key.
C1_SeekFindsEqualKey ==
    InsertThenSeek =>
        /\ xdx.found
        /\ xdx.current_recno \in RecnosOf(LiveEqual(xlast.key))
        /\ RecnosOf(LiveEqual(xlast.key)) = {xlast.pre}
               => xdx.current_recno = xlast.pre

\* Reached by C1: a seek after an insert that split the root finds the
\* inserted record.
C1_Witness ==
    /\ InsertThenSeek
    /\ ~xdx.nodes[xdx.root_offset].is_leaf
    /\ xcalls.inserts = Order
    /\ xdx.found
    /\ xdx.current_recno = xlast.pre

\* C3: a traversal from GoTop through sequential successors, up to the
\* successor step that reports the end, yields exactly the pairs inserted
\* and not deleted, each once, in comparator order.
C3_TraversalYieldsLivePairs ==
    (xlast.op = "skip" /\ xlast.pre = 1 /\ ~xlast.ok) =>
        /\ Len(xtrail) = Cardinality(xlive)
        /\ {xtrail[i] : i \in 1..Len(xtrail)} = RecnosOf(xlive)
        /\ \A i \in 1..Len(xtrail), j \in 1..Len(xtrail) :
               i < j => xdx_key_compare(xdx, KeyOfRecno(xtrail[i]),
                                        KeyOfRecno(xtrail[j])) <= 0

\* C4: when Seek finds no entry equal to the key, found is false and
\* current_recno is the record number of the smallest entry of the whole
\* index that is greater than the key, whenever such an entry exists.
C4_SeekMissGivesSuccessor ==
    (xlast.op = "seek" /\ LiveEqual(xlast.key) = {}) =>
        /\ ~xdx.found
        /\ LiveGreater(xlast.key) # {} =>
               xdx.current_recno \in RecnosOf(Lowest(LiveGreater(xlast.key)))

\* C5: Delete(key, recno) returns true whenever the pair is present in the
\* index, and false only when it is not.
C5_DeleteFindsPresentPair ==
    xlast.op = "delete" => (xlast.ok <=> xlast.pre = 1)

\* C6: on a non-empty index GoTop positions on the entry first in
\* comparator order and GoBottom on the entry last in comparator order.
C6_TopAndBottomOfNonEmptyIndex ==
    /\ (xlast.op = "go_top" /\ xlive # {}) =>
           xlast.ok /\ xdx.current_recno \in RecnosOf(Lowest(xlive))
    /\ (xlast.op = "go_bottom" /\ xlive # {}) =>
           xlast.ok /\ xdx.current_recno \in RecnosOf(Highest(xlive))

\* C7: on a UNIQUE index, an Insert of a key that compares equal to a key
\* already in the index returns DuplicateKey and leaves the tree (nodes,
\* root and node count) unchanged, wherever the existing key is stored.
C7_DuplicateKeyLeavesTree ==
    [][(/\ xcalls'.inserts # xcalls.inserts
        /\ xdx.unique
        /\ LiveEqual(xlast'.key) # {})
       => /\ ~xlast'.ok
          /\ xlast'.err = "DuplicateKey"
          /\ xdx'.nodes = xdx.nodes
          /\ xdx'.root_offset = xdx.root_offset
          /\ xdx'.node_count = xdx.node_count]_vars

\* Reached by C7: a rejected insert whose key is stored in the internal
\* root node and in no leaf.
C7_Witness ==
    /\ xdx.unique
    /\ xlast.op = "insert"
    /\ xlast.err = "DuplicateKey"
    /\ ~xdx.nodes[xdx.root_offset].is_leaf
    /\ \E i \in 1..key_count(xdx.nodes[xdx.root_offset]) :
          xdx.nodes[xdx.root_offset].entries[i].key = xlast.key

(***************************************************************************)
(* Properties of the record-file engine                                    *)
(***************************************************************************)

Rows ==
    IF dbf.modified
    THEN [dfile.recs EXCEPT ![dbf.current_record] = dbf.record_buffer]
    ELSE dfile.recs

Survivors ==
    SelectSeq(SubSeq(Rows, 1, dbf.record_count),
              LAMBDA rec : rec.flag # DBF_RECORD_DELETED)

PackSucceeds == dbf.open /\ dlast'.op = "pack" /\ dlast'.ok

PackResult ==
    /\ dbf'.record_count = Len(Survivors)
    /\ dfile'.record_count = Len(Survivors)
    /\ SubSeq(dfile'.recs, 1, Len(Survivors)) = Survivors

\* C8 (as stated): after a successful Pack the record count is the number
\* of records not marked deleted, the survivors occupy records 1..reccount
\* in their original order with unchanged contents, and the cursor is on
\* record 1.
C8_PackLeavesCursorOnRecord1 ==
    [][PackSucceeds =>
          /\ PackResult
          /\ dbf'.current_record = 1 /\ ~dbf'.bof /\ ~dbf'.eof]_vars

\* C8 (amended): after a successful Pack the record count is the number of
\* records not marked deleted and the survivors occupy records 1..reccount
\* in their original order with unchanged contents; the cursor is on record
\* 1 when a record survives, and at record number 0 with BOF and EOF set
\* when none does.
C8_PackKeepsSurvivors ==
    [][PackSucceeds =>
          /\ PackResult
          /\ IF Survivors # <<>>
             THEN /\ dbf'.current_record = 1 /\ ~dbf'.bof /\ ~dbf'.eof
                  /\ dbf'.record_buffer = Survivors[1]
             ELSE dbf'.current_record = 0 /\ dbf'.bof /\ dbf'.eof]_vars

\* Reached by C8: a pack that removed a record and kept another, which is
\* no longer the last slot it was in.
C8_Witness ==
    /\ dlast.op = "pack"
    /\ dlast.ok
    /\ dbf.record_count >= 1
    /\ dlast.pre > dbf.record_count
    /\ dbf.current_record = 1
    /\ dbf.record_buffer.data = "A"

\* C9: a successful AppendBlank increases the record count by exactly one
\* and leaves the cursor on the new last record, neither BOF nor EOF, with
\* the modified flag clear.
C9_AppendBlank ==
    (dlast.op = "append_blank" /\ dlast.ok) =>
        /\ dbf.record_count = dlast.pre + 1
        /\ dfile.record_count = dlast.pre + 1
        /\ dbf.current_record = dbf.record_count
        /\ ~dbf.bof
        /\ ~dbf.eof
        /\ ~dbf.modified

\* Reached by C9: a successful append to a table that already has records.
C9_Witness ==
    /\ dlast.op = "append_blank"
    /\ dlast.ok
    /\ dlast.pre >= 1
    /\ dbf.current_record = dlast.pre + 1

MovesAway ==
    /\ dbf.open
    /\ dbf.modified
    /\ \/ dlast'.op = "close"
       \/ /\ dlast'.op \in {"goto", "skip", "go_top", "go_bottom"}
          /\ dbf'.current_record # dbf.current_record

\* C10: when the cursor moves off a record whose change is pending, or the
\* table is closed on it, the record buffer is written to that record's
\* slot and no other slot of the file is altered.
C10_PendingChangeWrittenBack ==
    [][MovesAway =>
          dfile'.recs = [dfile.recs EXCEPT ![dbf.current_record] = dbf.record_buffer]]_vars

\* Reached by C10: the cursor has moved off a record whose pending change
\* is now in that record's slot.
C10_Witness ==
    /\ dbf.open
    /\ dlast.op \in {"goto", "skip", "go_top", "go_bottom"}
    /\ dlast.pre # 0
    /\ dbf.current_record # dlast.pre
    /\ dfile.recs[dlast.pre].data = "A"
    /\ dfile.recs[dlast.pre].flag = DBF_RECORD_DELETED

\* C11: the cursor's deleted flag equals (record buffer byte 0 = '*') after
\* any sequence of operations, also after a move to BOF or EOF from a
\* deleted record.
C11_DeletedFlagMatchesBuffer ==
    dbf.open => (dbf.deleted <=> dbf.record_buffer.flag = DBF_RECORD_DELETED)

\* C12: Skip(delta) moves to the saturated sum of the current record
\* number and delta: record 0 (BOF) when the sum is not positive, EOF when
\* it is past the last record, that record otherwise, never a record reached
\* by wrapping around; Skip(0) changes nothing.
C12_SkipSaturates ==
    [][(dbf.open /\ dlast'.op = "skip") =>
          LET sum == dbf.current_record + dlast'.arg
          IN  /\ dlast'.arg = 0 => dbf' = dbf
              /\ sum <= 0 => dbf'.current_record = 0 /\ dbf'.bof
              /\ sum > dbf.record_count => dbf'.eof
              /\ (0 < sum /\ sum <= dbf.record_count) =>
                     dbf'.current_record = sum]_vars

Iterated(verbs) == clast.verb \in verbs /\ clast.iterated

\* The cursor was on a record when the last command started.
StartedOnRecord ==
    /\ clast.pre.current_record >= 1
    /\ clast.pre.current_record <= clast.pre.record_count
    /\ ~clast.pre.eof

\* The visits of the last command on which FOR was true.
PassedFor ==
    {i \in 1..Len(clast.visited) :
        \/ clast.node.condition = NoExpr
        \/ /\ clast.visited[i] >= 1
           /\ clast.prefile.recs[clast.visited[i]].data = "A"}

\* C14: DELETE and RECALL without scope and condition touch the current
\* record only; with a scope, ALL included, or a condition they run the
\* record loop and report the number of records they changed, so that
\* DELETE ALL leaves every record deleted and RECALL ALL none.
C14_DeleteRecallScope ==
    [][(clast' # clast /\ clast'.verb \in {"DELETE", "RECALL"}) =>
          /\ clast'.toks = <<>> =>
                 /\ ~clast'.iterated
                 /\ \A i \in 1..dfile.record_count :
                        i # dbf.current_record => dfile'.recs[i] = dfile.recs[i]
          /\ clast'.toks # <<>> =>
                 /\ clast'.iterated
                 /\ clast'.report = Len(clast'.acted)
          /\ clast'.toks = <<Clause("ALL", NoCount, NoExpr)>> =>
                 \A i \in 1..dfile.record_count :
                     dfile'.recs[i].flag =
                         IF clast'.verb = "DELETE" THEN DBF_RECORD_DELETED
                         ELSE DBF_RECORD_ACTIVE]_vars

\* C15: with scope NEXT n a record loop passes at most n records through
\* FOR, and it stops with n of them passed, or at EOF, or on a record where
\* WHILE is false.
C15_NextCountsForPasses ==
    [][(/\ clast' # clast
        /\ clast'.iterated
        /\ clast'.node.scope.type = "SCOPE_NEXT") =>
          /\ Cardinality(PassedFor') <= clast'.node.scope.count
          /\ \/ Cardinality(PassedFor') = clast'.node.scope.count
             \/ dbf'.eof
             \/ /\ clast'.node.while_cond # NoExpr
                /\ ~value_to_logical(clast'.node.while_cond, dbf')]_vars

\* C16: the first record a LIST, COUNT, DELETE, RECALL or REPLACE loop
\* visits is record 1 under scope ALL and the record the cursor was on under
\* NEXT, RECORD and REST.
C16_ScopeStart ==
    (/\ Iterated({"LIST", "COUNT", "DELETE", "RECALL", "REPLACE"})
     /\ StartedOnRecord
     /\ clast.visited # <<>>) =>
        clast.visited[1] =
            IF clast.node.scope.type = "SCOPE_ALL"
            THEN 1
            ELSE clast.pre.current_record

\* C17: with scope RECORD n and no WHILE, a record loop started on a record
\* tests FOR on exactly one record.
C17_RecordVisitsOne ==
    (/\ clast.iterated
     /\ clast.node.scope.type = "SCOPE_RECORD"
     /\ clast.node.while_cond = NoExpr
     /\ StartedOnRecord) =>
        Len(clast.visited) = 1

(***************************************************************************)
(* Properties of the parser                                                *)
(***************************************************************************)

\* The first line of the input the last call started from.
RECURSIVE FirstLine(_)
FirstLine(input) ==
    IF input = <<>> \/ check(input, "NEWLINE") THEN <<>>
    ELSE <<Head(input)>> \o FirstLine(Tail(input))

IsScopeClause(tok) == tok.kw \in {"ALL", "NEXT", "RECORD", "REST"}

IsForClause(tok) == tok.kw = "FOR"

IsWhileClause(tok) == tok.kw = "WHILE"

\* The clauses of a suffix written scope first, then FOR, then WHILE.
ScopeFirst(toks) ==
    SelectSeq(toks, IsScopeClause) \o SelectSeq(toks, IsForClause)
        \o SelectSeq(toks, IsWhileClause)

\* C18: a DELETE, RECALL or COUNT line parses to the same node in whatever
\* order its scope, its FOR and its WHILE are written.
C18_SuffixOrderIrrelevant ==
    LET line == FirstLine(parser.before)
    IN  (parser.calls > 0 /\ line # <<>>
            /\ Head(line).kw \in {"DELETE", "RECALL", "COUNT"}) =>
            parser.node = parse_suffix(parser.node.type, ScopeFirst(Tail(line)))

\* C19: a call that meets a syntax error sets the error flag, leaves the
\* input just after the next newline and returns no node.
C19_SyntaxErrorGivesNil ==
    (parser.calls > 0 /\ parser.erred) =>
        /\ parser.had_error
        /\ parser.input = synchronize(skip_newlines(parser.before))
        /\ parser.node = NullNode

(***************************************************************************)
(* Properties of REINDEX                                                   *)
(***************************************************************************)

\* The key of a record under the key expression DATA: blank sorts first.
RecordKey(rec) == IF rec.data = "A" THEN 2 ELSE 1

\* The pairs the leaves of the index hold.
IndexPairs ==
    UNION {{<<xdx.nodes[n].entries[i].key, xdx.nodes[n].entries[i].recno>> :
               i \in 1..Len(xdx.nodes[n].entries)} :
           n \in {m \in 1..Len(xdx.nodes) : xdx.nodes[m].is_leaf}}

\* The pairs of the records of the table that are not deleted.
TablePairs ==
    {<<RecordKey(dfile.recs[i]), i>> :
        i \in {j \in 1..dfile.record_count :
                  dfile.recs[j].flag # DBF_RECORD_DELETED}}

\* C20: when REINDEX says "Reindex complete", the index holds the keys of
\* exactly the records of the table that are not deleted.
C20_ReindexCompleteMeansRebuilt ==
    [][(/\ clast' # clast
        /\ clast'.verb = "REINDEX"
        /\ clast'.said = "Reindex complete") =>
          IndexPairs' = TablePairs']_vars

(***************************************************************************)
(* Properties of the session                                               *)
(***************************************************************************)

\* C21: a record loop that runs while cancel_requested is set stops at its
\* check between iterations, so it tests at most one record.
C21_CancelStopsLoop ==
    [][(clast' # clast /\ clast'.iterated /\ ctx.cancel_requested) =>
          Len(clast'.visited) <= 1]_vars

\* C24: a DELETE that follows a DELETE of the same current record leaves the
\* record deleted and reports 0 records, the first having reported 1.
C24_DeleteTwice ==
    [][(/\ clast' # clast
        /\ clast'.verb = "DELETE" /\ clast'.toks = <<>>
        /\ clast.verb = "DELETE" /\ clast.toks = <<>>
        /\ clast.acted = <<dbf.current_record>>
        /\ ~dbf.eof)
       => /\ clast.report = 1
          /\ dfile'.recs[dbf.current_record].flag = DBF_RECORD_DELETED
          /\ clast'.report = 0]_vars

\* C25: a close of a handle that was closed before reads nothing of what the
\* first close released, and returns.
C25_CloseTwiceSafe ==
    handles.op \in {"dbf_close", "xdx_close"} =>
        ~handles.read_released /\ handles.outcome = "return"

\* An order under which the inserts of a run split no node.
RoomyOrder == MaxRecno + 2

\* The index of order RoomyOrder that holds the entries inserted so far,
\* inserted in the same sequence (the record number is the call's number).
RECURSIVE RoomyIndex(_)
RoomyIndex(n) ==
    IF n = 0
    THEN xdx_create(RoomyOrder, xdx.unique, xdx.descending)
    ELSE LET x == RoomyIndex(n - 1)
             keys == {k \in Keys : <<k, n>> \in xlive}
         IN  IF keys = {} THEN x
             ELSE xdx_insert(x, CHOOSE k \in keys : TRUE, n).x

\* C26: on an index of order 3 every insert succeeds, and Seek, GoTop and
\* GoBottom give what they give on an index of a larger order that holds the
\* same entries.
C26_SmallOrderFunctions ==
    LET roomy == RoomyIndex(MaxRecno)
    IN  /\ ~xcrashed
        /\ xlast.op = "insert" => xlast.ok
        /\ xlast.op = "seek" =>
               /\ xdx.found = xdx_seek(roomy, xlast.key).found
               /\ xdx.current_recno = xdx_seek(roomy, xlast.key).current_recno
        /\ xlast.op = "go_top" =>
               /\ xlast.ok = xdx_go_top(roomy).ok
               /\ xdx.current_recno = xdx_go_top(roomy).x.current_recno
        /\ xlast.op = "go_bottom" =>
               /\ xlast.ok = xdx_go_bottom(roomy).ok
               /\ xdx.current_recno = xdx_go_bottom(roomy).x.current_recno

\* The text of the value when nothing limits its length.
FullText(value) == FormatF(value, 1)

\* C27: when the text of the value is longer than the field, put_double
\* leaves the field full of asterisks or holding the largest number of that
\* width, nines throughout or a minus sign and nines.
C27_OverflowIsMarked ==
    (put.op = "put_double" /\ Len(FullText(put.value)) > put.length) =>
        \/ put.field = Chars("*", put.length)
        \/ put.field = Chars("9", put.length)
        \/ put.field = <<"-">> \o Chars("9", put.length - 1)

\* C28: a put on a read-only table fails with FileWrite, a put at BOF or EOF
\* with InvalidRecord, a put with a field index out of range with
\* InvalidField, and each leaves the record buffer as it was.
C28_PutRefusals ==
    [][(put' # put /\ put'.op \in {"put_string", "put_double"}) =>
          LET index_ok == put'.field_index \in 0..(Len(dbf.fields) - 1)
              on_record == ~dbf.bof /\ ~dbf.eof
              Refused(code) ==
                  /\ ~put'.ok
                  /\ put'.error = code
                  /\ dbf'.record_buffer = dbf.record_buffer
          IN  /\ (dbf.readonly /\ on_record /\ index_ok) =>
                     Refused("ERR_FILE_WRITE")
              /\ (~dbf.readonly /\ ~on_record /\ index_ok) =>
                     Refused("ERR_INVALID_RECORD")
              /\ (~dbf.readonly /\ on_record /\ ~index_ok) =>
                     Refused("ERR_INVALID_FIELD")]_vars

\* The slots a pop released: in use before the last call and not after it.
Popped == {i \in Slots : store.last.slots[i].in_use /\ ~store.slots[i].in_use}

\* The slots that held a LOCAL variable of the level that was current before
\* the last call.
LocalsOfLevel ==
    {i \in Slots : /\ store.last.slots[i].in_use
                   /\ store.last.slots[i].scope = "SCOPE_LOCAL"
                   /\ store.last.slots[i].scope_level = store.last.g_scope_level}

C30_NodesWithinOrder ==
    \A n \in 1..Len(xdx.nodes) : key_count(xdx.nodes[n]) <= xdx.order

\* The workers whose handler is running on the session.
InHandler == {w \in Workers : server.pc[w] = "handler"}

\* C22: at most one request handler at a time runs on the session, and the
\* one that runs holds the session lock.
C22_OneRequestInSession ==
    /\ Cardinality(InHandler) <= 1
    /\ \A w \in InHandler : server.owner = w

\* C23: the session holds 0 to MAX_INDEXES open indexes and the controlling
\* order lies between 0 and their number; a SET ORDER TO with a value outside
\* that range leaves the number of indexes and the order as they were.
C23_IndexBookkeeping ==
    /\ ctx.index_count \in 0..MAX_INDEXES
    /\ ctx.current_order \in 0..ctx.index_count
    /\ (/\ ctx.last.op = "SET ORDER"
        /\ ctx.last.arg # NoValue
        /\ ctx.last.arg \notin 0..ctx.last.index_count)
       => /\ ctx.index_count = ctx.last.index_count
          /\ ctx.current_order = ctx.last.current_order

\* Every slot is taken, the last index is controlling, and SET ORDER TO was
\* given the number past the last slot.
C23_Witness ==
    /\ ctx.last.op = "SET ORDER"
    /\ ctx.last.arg = MAX_INDEXES + 1
    /\ ctx.last.index_count = MAX_INDEXES
    /\ ctx.last.current_order = MAX_INDEXES

(***************************************************************************)
(* Properties of the index tree, of failing writes and of the session      *)
(***************************************************************************)

\* The keys of the entries of the subtree at offset n.
RECURSIVE KeysUnder(_, _)
KeysUnder(x, n) ==
    IF n = 0 THEN {}
    ELSE LET node == x.nodes[n]
             own == {node.entries[i].key : i \in 1..key_count(node)}
         IN  IF node.is_leaf THEN own
             ELSE own \cup KeysUnder(x, node.right_child)
                      \cup UNION {KeysUnder(x, node.entries[i].child_offset) :
                                     i \in 1..key_count(node)}

\* C31: in every internal node each entry separates its subtrees: the keys
\* under its own child compare less than its key, the keys under the next
\* child greater than or equal to it.
C31_EntriesSeparateSubtrees ==
    ~xcrashed =>
        \A n \in 1..Len(xdx.nodes) :
            LET node == xdx.nodes[n]
            IN  ~node.is_leaf =>
                    \A i \in 1..key_count(node) :
                        /\ \A k \in KeysUnder(xdx, node.entries[i].child_offset) :
                               xdx_key_compare(xdx, k, node.entries[i].key) < 0
                        /\ \A k \in KeysUnder(xdx, ChildAt(node, i)) :
                               xdx_key_compare(xdx, k, node.entries[i].key) >= 0

\* C35: no insert releases a node twice or touches a node it has released:
\* no call of xdx_insert ends in the repeated release of the split root.
C35_InsertReleasesOnce ==
    xlast.op = "insert" => xlast.err # "double_free"

\* C32: when a write fails during an append, a pack or a zap, the handle's
\* record count is the one it had before the call.
C32_FailedWriteKeepsCount ==
    [][(dlast'.op \in {"append_blank", "pack", "zap"} /\ ~dlast'.ok)
           => dbf'.record_count = dbf.record_count]_vars

\* C38: an append that fails leaves the cursor position, the record buffer
\* and the record count as they were.
C38_FailedAppendChangesNothing ==
    [][(dlast'.op = "append_blank" /\ ~dlast'.ok)
           => /\ dbf'.current_record = dbf.current_record
              /\ dbf'.record_buffer = dbf.record_buffer
              /\ dbf'.record_count = dbf.record_count]_vars

\* C33: a line on which the parser reports a syntax error is not executed:
\* no record is acted on and handle and file are as they were.
C33_ErrorLineAbandoned ==
    [][(clast'.seq # clast.seq /\ parser'.had_error)
           => /\ clast'.acted = <<>>
              /\ dbf' = dbf
              /\ dfile' = dfile]_vars

\* The tokens after the first line of input and its newline.
AfterLine(input) == synchronize(skip_newlines(input))

\* The commands of the lines of ProgramLines.
CommandOf(line) ==
    IF check(line, "IDENT")
    THEN IF check(Tail(line), "EQ") THEN "CMD_STORE" ELSE "CMD_QUESTION"
    ELSE IF check(line, "DELETE") THEN "CMD_DELETE"
    ELSE IF check(line, "COUNT") THEN "CMD_COUNT"
    ELSE "CMD_REPLACE"

\* C34: every call of parser_parse_command on a program makes progress: it
\* returns the command of the first line left and leaves the text after
\* that line and its newline, so that the lines run out.
C34_EachCallConsumesOneCommand ==
    [][parser'.calls = parser.calls + 1
           => /\ Len(parser'.input) < Len(parser.input)
              /\ parser'.node.type = CommandOf(FirstLine(skip_newlines(parser.input)))
              /\ skip_newlines(parser'.input) = skip_newlines(AfterLine(parser.input))]_vars

\* C37: after USE has closed or replaced the table in use, no index opened
\* on the table before it is open or controlling.
C37_UseClosesIndexes ==
    ctx.last.op = "USE" => ctx.index_count = 0 /\ ctx.current_order = 0

\* C36: while an index is open, a SEEK for the current key of a record of
\* the table finds a record of that key, also for a record that has been
\* appended or whose key field has been replaced since the index was built.
C36_SeekFindsCurrentKey ==
    (/\ ctx.last.op = "SEEK"
     /\ ctx.current_order > 0
     /\ \E i \in 1..dfile.record_count :
            /\ dfile.recs[i].flag = DBF_RECORD_ACTIVE
            /\ KeyOf(dfile.recs[i].data) = ctx.last.arg)
        => /\ xdx.found
           /\ ~dbf.eof
           /\ KeyOf(dbf.record_buffer.data) = ctx.last.arg

\* C39: a request that has acquired the session lock has released it when
\* its handler is over: no worker that is sending its response, or has
\* ended, holds the lock.
C39_LockReleasedAfterHandler ==
    \A w \in Workers :
        server.pc[w] \in {"send", "none"} => server.owner # w

\* The slots in use whose name is the name a variable of that name gets.
SlotsOf(name) ==
    {i \in Slots : /\ store.slots[i].in_use
                   /\ store.slots[i].name = str_upper(strncpy(name, MAX_FIELD_NAME - 1))}

\* C40: after a var_set of a name that succeeded, var_get of the name gives
\* the value that was set, and the name has one slot, however long it is
\* and however often it was set.
C40_SetThenGet ==
    (store.last.op = "store" /\ store.last.ok)
        => /\ var_get(store, store.last.name) = store.last.value
           /\ Cardinality(SlotsOf(store.last.name)) = 1

====
